---- MODULE Spec2Model ----
(***************************************************************************)
(* Tool-calling runtime of the CMOP observer agent: the tool registry      *)
(* (latacc_common/tools/registry.py), the transport client                 *)
(* (cmop_observer/api/client.py), the tools registered on the registry     *)
(* (cmop_observer/tools/basic.py, medical.py) and the agent's reasoning    *)
(* loop (cmop_observer/agent.py).                                          *)
(*                                                                         *)
(* Python values are represented as follows.  A dict is a TLA+ function    *)
(* whose domain is the set of its keys; a key that is absent from the dict *)
(* is absent from the domain.  The fields of a pydantic ApiResponse are    *)
(* optional values: <<>> stands for None and <<v>> for the value v.  A     *)
(* payload (the data of an envelope) is a record with a kind, the kind     *)
(* "null" standing for JSON null.                                          *)
(***************************************************************************)
EXTENDS Integers, Sequences, FiniteSets, TLC

VARIABLES
    _tools,         \* ToolRegistry._tools: tool name -> callable
    _schemas,       \* ToolRegistry._schemas: list of descriptors
    _http,          \* CMOPClient._http: TRUE iff an httpx.AsyncClient is held
    contexts,       \* httpx.AsyncClient objects constructed and not yet closed
    _done_result,   \* CMOPObserverAgent._done_result (the termination signal)
    last,           \* observation of the latest ToolRegistry.execute call
    pc,             \* where the agent is: idle, think, act, returned, raised
    messages,       \* run_loop's local list `messages`
    iteration,      \* run_loop's loop variable `iteration`
    tool_calls,     \* tool calls of the current assistant message not yet executed
    result,         \* what the user is given: the value returned by run_loop,
                    \* or the answer a session turn prints
    error,          \* exception type that left run_loop
    _llm,           \* the injected language model: the tool calls it may issue
    carried,        \* on entry to run_loop: the signal the caller's earlier activity left
    world,          \* behaviour of the backing service during the current run
    llm_calls,      \* number of self._llm.chat calls made by the current run
    conversation,   \* interactive_session's local list `conversation`
    agents,         \* several agents over one registry: agent -> its
                    \* _done_result and the position and result of its run_loop
    done_self       \* the agent (`self`) captured by the closure that the
                    \* registry binds to the name done

vars == <<_tools, _schemas, _http, contexts, _done_result, last, pc, messages,
          iteration, tool_calls, result, error, _llm, carried, world,
          llm_calls, conversation, agents, done_self>>

None == "None"

(***************************************************************************)
(* Bounds of the model.                                                    *)
(***************************************************************************)
max_iterations   == 2   \* Settings.max_iterations explored (default 15)
MaxToolCalls     == 2   \* tool calls in one assistant message
MaxQuestions     == 2   \* questions put in one interactive session
MaxRegistrations == 4   \* register calls made on one registry
MaxContexts      == 2   \* httpx.AsyncClient objects open at one time
MaxElapsed       == 121 \* minutes since injury explored
MaxRed           == 11  \* RED casualties in one casualty list
MaxOthers        == 31  \* casualties of another colour in one casualty list
DistanceStep     == 250 \* metres between the distances explored
MaxSteps         == 12  \* the longest distance explored, in steps
MaxEntities      == 5   \* entities the radius query returns

(***************************************************************************)
(* Exceptions.  Python's `except C` catches the instances of C and of its  *)
(* subclasses; asyncio.CancelledError and KeyboardInterrupt derive from    *)
(* BaseException only, every other type here from Exception.               *)
(***************************************************************************)
Parents(e) ==
    CASE e = "ConnectTimeout"      -> {"TimeoutException"}
      [] e = "ReadTimeout"         -> {"TimeoutException"}
      [] e = "TimeoutException"    -> {"TransportError"}
      [] e = "ConnectError"        -> {"NetworkError"}
      [] e = "ReadError"           -> {"NetworkError"}
      [] e = "NetworkError"        -> {"TransportError"}
      [] e = "RemoteProtocolError" -> {"TransportError"}
      [] e = "TransportError"      -> {"Exception"}
      [] e = "KeyError"            -> {"Exception"}
      [] e = "TypeError"           -> {"Exception"}
      [] e = "AttributeError"      -> {"Exception"}
      [] e = "RuntimeError"        -> {"Exception"}
      [] e = "Exception"           -> {"BaseException"}
      [] e = "CancelledError"      -> {"BaseException"}
      [] e = "KeyboardInterrupt"   -> {"BaseException"}
      [] OTHER                     -> {}

RECURSIVE IsInstance(_, _)
IsInstance(e, cls) ==
    \/ e = cls
    \/ \E p \in Parents(e) : IsInstance(p, cls)

(***************************************************************************)
(* The registered functions.  Signature(f) is the parameter list that      *)
(* inspect.signature(f) yields: name, type hint and default.  A default is *)
(* inspect.Parameter.empty (the parameter has none), None, or a value.     *)
(***************************************************************************)
Empty       == [kind |-> "empty"]
NoneDefault == [kind |-> "None"]
Default(v)  == [kind |-> "value", value |-> v]

Param(n, h, d) == [name |-> n, hint |-> h, default |-> d]

BasicTools ==
    {"get_all_entities", "get_entity_by_id", "get_entities_by_category",
     "get_casualties", "get_casualties_by_triage", "get_casualties_by_evac_stage",
     "get_nearby_entities", "get_nine_line", "get_schema",
     "get_available_scenarios"}

MedicalTools ==
    {"find_nearest_facility_by_role", "check_10_1_2_compliance",
     "get_mascal_summary"}

Signature(f) ==
    CASE f = "done" -> << Param("summary", "str", Empty) >>
      [] f = "get_entity_by_id" -> << Param("entity_id", "int", Empty) >>
      [] f = "get_entities_by_category" -> << Param("category", "str", Empty) >>
      [] f = "get_casualties_by_triage" -> << Param("color", "str", Empty) >>
      [] f = "get_casualties_by_evac_stage" -> << Param("stage", "str", Empty) >>
      [] f = "get_nearby_entities" ->
            << Param("longitude", "float", Empty),
               Param("latitude", "float", Empty),
               Param("radius_m", "int", Default(5000)) >>
      [] f = "get_nine_line" -> << Param("entity_id", "int", Empty) >>
      [] f = "find_nearest_facility_by_role" ->
            << Param("casualty_lat", "float", Empty),
               Param("casualty_lng", "float", Empty),
               Param("min_role", "int", Default(1)),
               Param("max_distance_m", "int", Default(50000)) >>
      [] f = "check_10_1_2_compliance" -> << Param("entity_id", "int", Empty) >>
      \* Not a tool of the repository: a function with a None default, which
      \* none of the registered tools has.
      [] f = "sample_tool" ->
            << Param("query", "str", Empty),
               Param("category", "str", NoneDefault),
               Param("limit", "int", Default(10)) >>
      [] OTHER -> << >>

ParamNames(f) == {Signature(f)[i].name : i \in 1..Len(Signature(f))}

RequiredParams(f) ==
    {Signature(f)[i].name : i \in {j \in 1..Len(Signature(f)) :
                                        Signature(f)[j].default.kind = "empty"}}

(***************************************************************************)
(* Calling func with the mapping `arguments` as keyword arguments: Python   *)
(* binds the keys of the mapping to the                                    *)
(* parameters; an unknown key or a missing parameter without default is a  *)
(* TypeError raised before the body starts.                                *)
(***************************************************************************)
Binds_IgnoreUnknownKeys(f, arguments) ==
    RequiredParams(f) \subseteq DOMAIN arguments

Binds(f, arguments) ==
    /\ DOMAIN arguments \subseteq ParamNames(f)
    /\ RequiredParams(f) \subseteq DOMAIN arguments

(***************************************************************************)
(* ToolRegistry.register and ToolRegistry._build_schema.                   *)
(***************************************************************************)
\* The same with `param.default is None` taken for a missing default.
SelectRequired_NoneIsRequired(sig) ==
    LET Required(param) == param.default.kind \in {"empty", "None"}
        names == [i \in 1..Len(SelectSeq(sig, Required)) |->
                     SelectSeq(sig, Required)[i].name]
    IN  names

RECURSIVE SelectRequired(_)
SelectRequired(sig) ==
    IF sig = << >> THEN << >>
    ELSE IF Head(sig).default.kind = "empty"
         THEN <<Head(sig).name>> \o SelectRequired(Tail(sig))
         ELSE SelectRequired(Tail(sig))

\* _TYPE_MAP.get(hint, "string")
_json_schema_type(hint) ==
    CASE hint = "int"   -> "integer"
      [] hint = "float" -> "number"
      [] hint = "bool"  -> "boolean"
      [] OTHER          -> "string"

\* The entry of `properties` for one parameter: its JSON type and, for a
\* default that is neither empty nor None, the default.  (The description
\* taken from the docstring is left out.)
Property(param) ==
    IF param.default.kind = "value"
    THEN [type |-> _json_schema_type(param.hint),
          default |-> param.default.value]
    ELSE [type |-> _json_schema_type(param.hint)]

\* The parameters _build_schema goes through: `self` and `return` are skipped.
Described(sig) == SelectSeq(sig, LAMBDA param : param.name \notin {"self", "return"})

_build_schema(f) ==
    LET sig == Described(Signature(f))
    IN  [name       |-> f,
         properties |-> [n \in {sig[i].name : i \in DOMAIN sig} |->
                            Property(sig[CHOOSE i \in DOMAIN sig : sig[i].name = n])],
         required   |-> SelectRequired(sig)]

register(reg, f) ==
    [tools   |-> [n \in DOMAIN reg.tools \cup {f} |->
                     IF n = f THEN f ELSE reg.tools[n]],
     schemas |-> Append(reg.schemas, _build_schema(f))]

ToolRegistry == [tools |-> << >>, schemas |-> << >>]

RECURSIVE RegisterAll(_, _)
RegisterAll(reg, fs) ==
    IF fs = << >> THEN reg
    ELSE RegisterAll(register(reg, Head(fs)), Tail(fs))

register_basic_tools(reg) ==
    RegisterAll(reg,
        <<"get_all_entities", "get_entity_by_id", "get_entities_by_category",
          "get_casualties", "get_casualties_by_triage",
          "get_casualties_by_evac_stage", "get_nearby_entities",
          "get_nine_line", "get_schema", "get_available_scenarios">>)

register_medical_tools(reg) ==
    RegisterAll(reg,
        <<"find_nearest_facility_by_role", "check_10_1_2_compliance",
          "get_mascal_summary">>)

_register_done_tool(reg) == register(reg, "done")

(***************************************************************************)
(* The backing service.  A world is what one HTTP GET meets: a response    *)
(* (status and body) or an exception of httpx.  A body either fails to     *)
(* decode as JSON or decodes to a JSON value: an object with a data member *)
(* (wrapped), an object without one, an array or a scalar.  payload is the *)
(* data member of a wrapped object and the whole decoded value otherwise.  *)
(***************************************************************************)
Response(status, body) == [kind |-> "response", status |-> status, body |-> body]
Failure(exc) == [kind |-> "exception", exc |-> exc]

Undecodable == [decodes |-> FALSE]
Json(type, wrapped, payload) ==
    [decodes |-> TRUE, type |-> type, wrapped |-> wrapped, payload |-> payload]

NullPayload  == [kind |-> "null"]
EmptyPayload == [kind |-> "empty"]
\* An entity: whether it has a medical record, what its created_at is
\* (missing, malformed, naive or aware) and, for a timestamp that parses,
\* age_s = (now - injury_time).total_seconds().
Entity(medical, created_at, casualty_status) ==
    [kind |-> "entity", medical |-> medical, created_at |-> created_at,
     casualty_status |-> casualty_status, age_s |-> 0]
Entities(items) == [kind |-> "list", items |-> items]

\* A casualty: an entity whose medical record holds these keys.
Casualty(triage_color, evac_stage, casualty_status, evac_priority, age_s) ==
    [kind |-> "entity", medical |-> TRUE, created_at |-> "aware",
     casualty_status |-> casualty_status, age_s |-> age_s,
     triage_color |-> triage_color, evac_stage |-> evac_stage,
     evac_priority |-> evac_priority]

\* A list of casualties, as GET /casualties returns it.
Casualties(casualties) ==
    [kind |-> "list", items |-> "casualties", casualties |-> casualties]

\* A list of entities around a casualty, as GET /entities/nearby returns it.
\* Each entity has an id and may have categoria and tipo_elemento; dist2 is
\* the great-circle distance from the casualty to the entity (what
\* haversine_distance returns for its coordinates) in half metres.
Nearby(entities) ==
    [kind |-> "list", items |-> "nearby", entities |-> entities]

\* dict.get(key, default)
Field(d, key, default) == IF key \in DOMAIN d THEN d[key] ELSE default

\* int(a / b) for b > 0: Python's int truncates towards zero.
int(a, b) == IF a >= 0 THEN a \div b ELSE -((-a) \div b)

\* Python truthiness of a decoded payload: None, {} and [] are falsy.
Falsy(payload) == payload.kind \in {"null", "empty"}

(***************************************************************************)
(* ApiResponse (a pydantic model) and model_dump(exclude_none=True).       *)
(***************************************************************************)
ApiResponse(success, data, err, message, action, retry_after_seconds) ==
    [success |-> <<success>>, data |-> data, error |-> err, message |-> message,
     action |-> action, retry_after_seconds |-> retry_after_seconds]

model_dump_DropsHint(r) ==
    [k \in {f \in DOMAIN r : r[f] # <<>>} \ {"retry_after_seconds"} |-> r[k][1]]

model_dump(r) ==
    [k \in {f \in DOMAIN r : r[f] # <<>>} |-> r[k][1]]

(***************************************************************************)
(* CMOPClient._get.  The outcome names the exception that leaves _get, or  *)
(* the ApiResponse it returns, and the number of requests it sent.         *)
(***************************************************************************)
Raise(exc, sent) ==
    [raised |-> TRUE, exc |-> exc, value |-> [absent |-> TRUE], sent |-> sent]
Return(value, sent) ==
    [raised |-> FALSE, exc |-> None, value |-> value, sent |-> sent]

InvalidJson ==
    ApiResponse(FALSE, <<>>, <<"INVALID_JSON">>, <<"Failed to parse response">>,
                <<"retry">>, <<>>)

_get(http, w) ==
    IF ~http THEN Raise("RuntimeError", 0)
    ELSE IF w.kind = "exception" THEN
        IF IsInstance(w.exc, "TimeoutException") THEN
            Return(ApiResponse(FALSE, <<>>, <<"TIMEOUT">>, <<"Request timeout">>,
                               <<"retry">>, <<3>>), 1)
        ELSE IF IsInstance(w.exc, "ConnectError") THEN
            Return(ApiResponse(FALSE, <<>>, <<"CONNECTION_REFUSED">>,
                               <<"Cannot connect to CMOP API">>,
                               <<"retry">>, <<10>>), 1)
        ELSE IF IsInstance(w.exc, "NetworkError") THEN
            Return(ApiResponse(FALSE, <<>>, <<"NETWORK_ERROR">>, <<"Network error">>,
                               <<"retry">>, <<>>), 1)
        ELSE Raise(w.exc, 1)
    ELSE IF w.status = 404 THEN
        Return(ApiResponse(FALSE, <<>>, <<"NOT_FOUND">>, <<"Resource not found">>,
                           <<"inform">>, <<>>), 1)
    ELSE IF w.status >= 500 THEN
        Return(ApiResponse(FALSE, <<>>, <<"SERVER_ERROR">>,
                           <<"CMOP API server error">>, <<"retry">>, <<5>>), 1)
    ELSE IF w.status >= 400 THEN
        Return(ApiResponse(FALSE, <<>>, <<"CLIENT_ERROR">>, <<"Invalid request">>,
                           <<"correct">>, <<>>), 1)
    ELSE IF ~w.body.decodes THEN Return(InvalidJson, 1)
    \* data.get("data", data): only a dict has .get; on an array or a scalar
    \* the AttributeError is caught by the same `except Exception`.
    ELSE IF w.body.type # "object" THEN Return(InvalidJson, 1)
    ELSE Return(ApiResponse(TRUE,
                            IF w.body.payload.kind = "null" THEN <<>>
                            ELSE <<w.body.payload>>,
                            <<>>, <<>>, <<>>, <<>>), 1)

(***************************************************************************)
(* The bodies of the registered tools, run with bound arguments.  Each     *)
(* yields the exception that leaves the body or the value it returns, the  *)
(* number of requests sent and the agent's termination signal afterwards.  *)
(***************************************************************************)
Outcome(o, signal) ==
    [raised |-> o.raised, exc |-> o.exc, value |-> o.value, sent |-> o.sent,
     done |-> signal]

\* basic.py: every basic tool returns the dump of one client call.
basic_tool(http, w) ==
    LET r == _get(http, w)
    IN  IF r.raised THEN r ELSE Return(model_dump(r.value), r.sent)

done_StoresMessage(arguments) ==
    Outcome(Return([success |-> TRUE, message |-> "Analysis complete."], 0),
            "Analysis complete.")

\* agent.py: the closure `done` registered by _register_done_tool.
done(arguments) ==
    Outcome(Return([success |-> TRUE, message |-> "Analysis complete."], 0),
            arguments["summary"])

\* The same without the minimum of one minute.
estimate_ground_eta_NoMinimum(distance_m, speed_kmh) ==
    int(distance_m * 60, 1000 * speed_kmh)

\* utils: estimate_ground_eta, max(1, int(hours * 60)) with
\* hours = distance_m / 1000 / speed_kmh, for a speed above 0.
estimate_ground_eta(distance_m, speed_kmh) ==
    LET minutes == int(distance_m * 60, 1000 * speed_kmh)
    IN  IF minutes > 1 THEN minutes ELSE 1

\* enums.py:57-66: the values of FacilityRole.
FacilityRoles ==
    {"medical_role_1", "medical_role_2", "medical_role_2basic",
     "medical_role_2enhanced", "medical_role_3", "medical_role_4",
     "medical_facility_multinational"}

\* enums.py:68-80: FacilityRole.level
level(role) ==
    CASE role = "medical_role_1" -> 1
      [] role \in {"medical_role_2", "medical_role_2basic",
                   "medical_role_2enhanced"} -> 2
      [] role \in {"medical_role_3", "medical_facility_multinational"} -> 3
      [] role = "medical_role_4" -> 4
      [] OTHER -> 0

\* The same with an unknown tag taken for the lowest role.
role_level_UnknownIsRole1(f) ==
    LET tipo == Field(f, "tipo_elemento", "")
    IN  IF tipo \in FacilityRoles THEN level(tipo) ELSE 1

\* medical.py:54-59: FacilityRole(tipo).level, and 0 where FacilityRole(tipo)
\* raises ValueError because tipo is none of its values.
role_level(f) ==
    LET tipo == Field(f, "tipo_elemento", "")
    IN  IF tipo \in FacilityRoles THEN level(tipo) ELSE 0

\* medical.py:62-77: the entry appended for facility f.  int(dist) drops the
\* fraction of a metre; estimate_ground_eta(dist) is called with the default
\* speed of 60 km/h (dist2 half metres at 120 are dist2 / 2 metres at 60).
eligible_entry(f) ==
    [id |-> f.id, role |-> Field(f, "tipo_elemento", ""),
     role_level |-> role_level(f),
     distance_m |-> int(f.dist2, 2),
     eta_minutes |-> estimate_ground_eta(f.dist2, 2 * 60)]

\* A sorted list with entry x put after the entries that are not farther.
insert(sorted, x) ==
    LET k == Cardinality({i \in DOMAIN sorted :
                             sorted[i].distance_m <= x.distance_m})
    IN  SubSeq(sorted, 1, k) \o <<x>> \o SubSeq(sorted, k + 1, Len(sorted))

\* list.sort(key=lambda x: x["distance_m"]): ascending and stable.
RECURSIVE sort_by_distance(_)
sort_by_distance(s) ==
    IF s = << >> THEN << >>
    ELSE insert(sort_by_distance(SubSeq(s, 1, Len(s) - 1)), s[Len(s)])

\* The same without the sort: the facilities stay in the order received.
nearest_of_Unsorted(entities, min_role) ==
    LET facilities ==
            SelectSeq(entities,
                      LAMBDA e : Field(e, "categoria", None) = "medical_facility")
        kept == SelectSeq(facilities, LAMBDA f : role_level(f) >= min_role)
        eligible == [i \in DOMAIN kept |-> eligible_entry(kept[i])]
    IN  IF facilities = << >>
        THEN [success |-> TRUE, data |-> NullPayload,
              message |-> "No medical facilities found", action |-> "inform"]
        ELSE IF eligible = << >>
        THEN [success |-> TRUE, data |-> NullPayload,
              message |-> "No Role facilities within radius",
              action |-> "inform"]
        ELSE [success |-> TRUE,
              data |-> [kind |-> "nearest", nearest |-> eligible[1],
                        alternatives |->
                            SubSeq(eligible, 2,
                                   IF Len(eligible) < 4 THEN Len(eligible)
                                   ELSE 4)]]

\* The same with an empty selection reported as a failure.
nearest_of_AbsenceFails(entities, min_role) ==
    LET facilities ==
            SelectSeq(entities,
                      LAMBDA e : Field(e, "categoria", None) = "medical_facility")
        kept == SelectSeq(facilities, LAMBDA f : role_level(f) >= min_role)
        eligible == sort_by_distance(
                        [i \in DOMAIN kept |-> eligible_entry(kept[i])])
    IN  IF facilities = << >> \/ eligible = << >>
        THEN [success |-> FALSE, error |-> "NOT_FOUND",
              message |-> "No medical facilities found", action |-> "inform"]
        ELSE [success |-> TRUE,
              data |-> [kind |-> "nearest", nearest |-> eligible[1],
                        alternatives |->
                            SubSeq(eligible, 2,
                                   IF Len(eligible) < 4 THEN Len(eligible)
                                   ELSE 4)]]

\* medical.py:41-94: what find_nearest_facility_by_role returns for the
\* entities the radius query gave.
nearest_of(entities, min_role) ==
    LET facilities ==
            SelectSeq(entities,
                      LAMBDA e : Field(e, "categoria", None) = "medical_facility")
        kept == SelectSeq(facilities, LAMBDA f : role_level(f) >= min_role)
        eligible == sort_by_distance(
                        [i \in DOMAIN kept |-> eligible_entry(kept[i])])
    IN  IF facilities = << >>
        THEN [success |-> TRUE, data |-> NullPayload,
              message |-> "No medical facilities found", action |-> "inform"]
        ELSE IF eligible = << >>
        THEN [success |-> TRUE, data |-> NullPayload,
              message |-> "No Role facilities within radius",
              action |-> "inform"]
        ELSE [success |-> TRUE,
              data |-> [kind |-> "nearest", nearest |-> eligible[1],
                        alternatives |->
                            SubSeq(eligible, 2,
                                   IF Len(eligible) < 4 THEN Len(eligible)
                                   ELSE 4)]]

\* medical.py: find_nearest_facility_by_role.
find_nearest_facility_by_role(arguments, http, w) ==
    LET nearby == _get(http, w)
    IN  IF nearby.raised THEN nearby
        ELSE IF ~nearby.value.success[1]
             THEN Return(model_dump(nearby.value), nearby.sent)
        ELSE LET data == nearby.value.data
                 entities == IF data = <<>> \/ Falsy(data[1])
                             THEN Entities("none") ELSE data[1]
             IN  \* iterating a dict yields its keys, and a str has no .get
                 IF entities.kind # "list"
                 THEN Raise("AttributeError", nearby.sent)
                 ELSE IF entities.items = "nearby"
                 THEN Return(nearest_of(entities.entities,
                                        Field(arguments, "min_role", 1)),
                             nearby.sent)
                 ELSE IF entities.items = "none"
                 THEN Return([success |-> TRUE, data |-> NullPayload,
                              message |-> "No medical facilities found",
                              action |-> "inform"], nearby.sent)
                 ELSE IF entities.items = "no_coordinates"
                 THEN Raise("KeyError", nearby.sent)
                 ELSE IF entities.items = "null_coordinates"
                 THEN Raise("TypeError", nearby.sent)
                 ELSE IF entities.items = "low_role"
                 THEN Return([success |-> TRUE, data |-> NullPayload,
                              message |-> "No Role facilities within radius",
                              action |-> "inform"], nearby.sent)
                 ELSE Return([success |-> TRUE,
                              data |-> [kind |-> "nearest"]],
                             nearby.sent)

\* The same with the first-aid limit exclusive.
timeline_ExclusiveTenMinutes(elapsed_minutes, is_red, evac_stage) ==
    [first_aid_10min |->
        IF elapsed_minutes < 10 THEN "COMPLIANT"
        ELSE IF is_red THEN "VIOLATED" ELSE "DELAYED",
     dcr_1hour |->
        IF elapsed_minutes <= 60 THEN "COMPLIANT"
        ELSE IF evac_stage \in {"in_transit", "delivered"}
        THEN "COMPLIANT (en route or delivered)"
        ELSE IF is_red THEN "VIOLATED" ELSE "AT_RISK",
     dcs_2hour |->
        IF elapsed_minutes <= 120 THEN "COMPLIANT"
        ELSE IF evac_stage = "delivered"
        THEN "COMPLIANT (delivered to facility)"
        ELSE IF is_red THEN "VIOLATED" ELSE "AT_RISK"]

\* The same with every check that is not met reported as VIOLATED.
timeline_NoMilderLabel(elapsed_minutes, is_red, evac_stage) ==
    [first_aid_10min |->
        IF elapsed_minutes <= 10 THEN "COMPLIANT" ELSE "VIOLATED",
     dcr_1hour |->
        IF elapsed_minutes <= 60 THEN "COMPLIANT"
        ELSE IF evac_stage \in {"in_transit", "delivered"}
        THEN "COMPLIANT (en route or delivered)"
        ELSE "VIOLATED",
     dcs_2hour |->
        IF elapsed_minutes <= 120 THEN "COMPLIANT"
        ELSE IF evac_stage = "delivered"
        THEN "COMPLIANT (delivered to facility)"
        ELSE "VIOLATED"]

\* medical.py:169-195: the three timeline checks.
timeline(elapsed_minutes, is_red, evac_stage) ==
    [first_aid_10min |->
        IF elapsed_minutes <= 10 THEN "COMPLIANT"
        ELSE IF is_red THEN "VIOLATED" ELSE "DELAYED",
     dcr_1hour |->
        IF elapsed_minutes <= 60 THEN "COMPLIANT"
        ELSE IF evac_stage \in {"in_transit", "delivered"}
        THEN "COMPLIANT (en route or delivered)"
        ELSE IF is_red THEN "VIOLATED" ELSE "AT_RISK",
     dcs_2hour |->
        IF elapsed_minutes <= 120 THEN "COMPLIANT"
        ELSE IF evac_stage = "delivered"
        THEN "COMPLIANT (delivered to facility)"
        ELSE IF is_red THEN "VIOLATED" ELSE "AT_RISK"]

StillAtPoi  == "URGENT: RED casualty still at POI after 30min"
ExceedsDcr  == "CRITICAL: RED casualty exceeds 1-hour DCR timeline"
ExceedsDcs  == "VIOLATION: 2-hour DCS timeline exceeded"
UrgentAtPoi == "URGENT priority casualty still at POI"

\* The same with the DCR recommendation given only once the casualty moves.
recommendations_DcrOnlyInTransit(triage, evac_stage, evac_priority, elapsed_minutes) ==
    (IF triage = "RED" /\ evac_stage = "at_poi" /\ elapsed_minutes > 30
     THEN <<StillAtPoi>> ELSE << >>)
    \o (IF triage = "RED" /\ elapsed_minutes > 60 /\ evac_stage = "in_transit"
        THEN <<ExceedsDcr>> ELSE << >>)
    \o (IF triage \in {"RED", "YELLOW"} /\ elapsed_minutes > 120
           /\ evac_stage # "delivered"
        THEN <<ExceedsDcs>> ELSE << >>)
    \o (IF evac_priority = "URGENT" /\ evac_stage = "at_poi"
           /\ elapsed_minutes > 15
        THEN <<UrgentAtPoi>> ELSE << >>)

\* The same with the rules exclusive: only the first that fires is given.
recommendations_Exclusive(triage, evac_stage, evac_priority, elapsed_minutes) ==
    IF triage = "RED" /\ evac_stage = "at_poi" /\ elapsed_minutes > 30
    THEN <<StillAtPoi>>
    ELSE IF triage = "RED" /\ elapsed_minutes > 60 /\ evac_stage # "delivered"
    THEN <<ExceedsDcr>>
    ELSE IF triage \in {"RED", "YELLOW"} /\ elapsed_minutes > 120
            /\ evac_stage # "delivered"
    THEN <<ExceedsDcs>>
    ELSE IF evac_priority = "URGENT" /\ evac_stage = "at_poi"
            /\ elapsed_minutes > 15
    THEN <<UrgentAtPoi>>
    ELSE << >>

\* medical.py:197-218: the recommendations, in the order they are appended.
recommendations(triage, evac_stage, evac_priority, elapsed_minutes) ==
    (IF triage = "RED" /\ evac_stage = "at_poi" /\ elapsed_minutes > 30
     THEN <<StillAtPoi>> ELSE << >>)
    \o (IF triage = "RED" /\ elapsed_minutes > 60 /\ evac_stage # "delivered"
        THEN <<ExceedsDcr>> ELSE << >>)
    \o (IF triage \in {"RED", "YELLOW"} /\ elapsed_minutes > 120
           /\ evac_stage # "delivered"
        THEN <<ExceedsDcs>> ELSE << >>)
    \o (IF evac_priority = "URGENT" /\ evac_stage = "at_poi"
           /\ elapsed_minutes > 15
        THEN <<UrgentAtPoi>> ELSE << >>)

\* medical.py: check_10_1_2_compliance.
check_10_1_2_compliance(http, w) ==
    LET r == _get(http, w)
    IN  IF r.raised THEN r
        ELSE IF ~r.value.success[1] THEN Return(model_dump(r.value), r.sent)
        ELSE IF r.value.data = <<>> \/ Falsy(r.value.data[1])
        THEN Return([success |-> FALSE, error |-> "NOT_FOUND",
                     message |-> "Entity not found", action |-> "inform"],
                    r.sent)
        ELSE LET entity == r.value.data[1]
             IN  IF entity.kind # "entity"      \* a list has no .get
                 THEN Raise("AttributeError", r.sent)
                 ELSE IF ~entity.medical
                 THEN Return([success |-> FALSE, error |-> "NOT_CASUALTY",
                              message |-> "Entity has no medical record",
                              action |-> "inform"], r.sent)
                 ELSE IF entity.created_at = "missing"
                 THEN Return([success |-> FALSE, error |-> "NO_TIMESTAMP",
                              message |-> "Entity has no created_at timestamp",
                              action |-> "inform"], r.sent)
                 ELSE IF entity.created_at = "malformed"
                 THEN Return([success |-> FALSE, error |-> "INVALID_TIMESTAMP",
                              message |-> "Cannot parse timestamp",
                              action |-> "inform"], r.sent)
                 \* now - injury_time with an offset-naive injury_time
                 ELSE IF entity.created_at = "naive"
                 THEN Raise("TypeError", r.sent)
                 ELSE LET elapsed_minutes == int(entity.age_s, 60)
                          triage == Field(entity, "triage_color", "UNKNOWN")
                          evac_stage == Field(entity, "evac_stage", "unknown")
                          casualty_status == entity.casualty_status
                          evac_priority ==
                              Field(entity, "evac_priority", "UNKNOWN")
                      IN  IF casualty_status = "KIA"
                          THEN Return([success |-> TRUE,
                                       data |-> [kind |-> "not applicable",
                                                 triage_color |-> triage,
                                                 casualty_status |-> "KIA"]],
                                      r.sent)
                          ELSE Return(
                              [success |-> TRUE,
                               data |->
                                 [kind |-> "timeline",
                                  triage_color |-> triage,
                                  casualty_status |-> casualty_status,
                                  evac_stage |-> evac_stage,
                                  evac_priority |-> evac_priority,
                                  time_since_injury_minutes |-> elapsed_minutes,
                                  timeline_status |->
                                      timeline(elapsed_minutes, triage = "RED",
                                               evac_stage),
                                  recommendations |->
                                      LET rs == recommendations(
                                                    triage, evac_stage,
                                                    evac_priority,
                                                    elapsed_minutes)
                                      IN  IF rs = << >>
                                          THEN <<"Timeline compliant">>
                                          ELSE rs]],
                              r.sent)

\* medical.py:254-262: triage_counts after the loop over the casualties.
RECURSIVE triage_counts(_)
triage_counts(casualties) ==
    IF casualties = << >>
    THEN [colour \in {"RED", "YELLOW", "GREEN", "BLUE", "BLACK", "UNKNOWN"} |-> 0]
    ELSE LET n == Len(casualties)
             before == triage_counts(SubSeq(casualties, 1, n - 1))
             triage == Field(casualties[n], "triage_color", "UNKNOWN")
         IN  [colour \in DOMAIN before \cup {triage} |->
                 (IF colour \in DOMAIN before THEN before[colour] ELSE 0)
                 + (IF colour = triage THEN 1 ELSE 0)]

\* The same with the RED threshold of MASCAL_DECLARED exclusive.
mascal_status_ExclusiveThreshold(red, total) ==
    IF red > 10 \/ total >= 30 THEN "MASCAL_DECLARED"
    ELSE IF red >= 5 \/ total >= 15 THEN "MASCAL_WARNING"
    ELSE "NORMAL"

\* medical.py:284-289
mascal_status(red, total) ==
    IF red >= 10 \/ total >= 30 THEN "MASCAL_DECLARED"
    ELSE IF red >= 5 \/ total >= 15 THEN "MASCAL_WARNING"
    ELSE "NORMAL"

\* medical.py:291-295
risk_map(status) ==
    CASE status = "MASCAL_DECLARED" -> "HIGH"
      [] status = "MASCAL_WARNING"  -> "MODERATE"
      [] status = "NORMAL"          -> "LOW"

\* medical.py:270-278: the entry of critical_at_poi made from casualty c.
critical_entry(c) ==
    [id |-> c.id, evac_priority |-> Field(c, "evac_priority", "UNKNOWN")]

\* medical.py:263-278: critical_at_poi after the loop over the casualties.
critical(casualties) ==
    LET selected ==
            SelectSeq(casualties,
                      LAMBDA c : /\ Field(c, "triage_color", "UNKNOWN") = "RED"
                                 /\ Field(c, "evac_stage", "unknown") = "at_poi")
    IN  [i \in DOMAIN selected |-> critical_entry(selected[i])]

\* critical_at_poi[:5]
first5(s) == SubSeq(s, 1, IF Len(s) < 5 THEN Len(s) ELSE 5)

\* The same with the count taken from the capped list.
summary_CountsCapped(casualties) ==
    LET counts == triage_counts(casualties)
        red == counts["RED"]
        total == Len(casualties)
        status == mascal_status(red, total)
    IN  [kind |-> "mascal summary",
         total_casualties |-> total,
         triage_distribution |-> counts,
         critical_at_poi_count |-> Len(first5(critical(casualties))),
         critical_at_poi |-> first5(critical(casualties)),
         mascal_status |-> status,
         assessment |-> [RED_casualties |-> red,
                         YELLOW_casualties |-> counts["YELLOW"],
                         immediate_evac_needed |-> Len(critical(casualties)),
                         overwhelmed_risk |-> risk_map(status)]]

\* medical.py:245-325: the summary of a list of casualties.
summary(casualties) ==
    LET counts == triage_counts(casualties)
        red == counts["RED"]
        total == Len(casualties)
        status == mascal_status(red, total)
    IN  [kind |-> "mascal summary",
         total_casualties |-> total,
         triage_distribution |-> counts,
         critical_at_poi_count |-> Len(critical(casualties)),
         critical_at_poi |-> first5(critical(casualties)),
         mascal_status |-> status,
         assessment |-> [RED_casualties |-> red,
                         YELLOW_casualties |-> counts["YELLOW"],
                         immediate_evac_needed |-> Len(critical(casualties)),
                         overwhelmed_risk |-> risk_map(status)]]

\* medical.py: get_mascal_summary (two client calls, then the aggregation).
get_mascal_summary(http, w) ==
    LET casualties_resp == _get(http, w)
        facilities_resp == _get(http, w)
    IN  IF casualties_resp.raised THEN casualties_resp
        ELSE IF ~casualties_resp.value.success[1]
        THEN Return(model_dump(casualties_resp.value), 1)
        ELSE IF facilities_resp.raised THEN Raise(facilities_resp.exc, 2)
        ELSE IF ~facilities_resp.value.success[1]
        THEN Return(model_dump(facilities_resp.value), 2)
        ELSE LET data == casualties_resp.value.data
             IN  IF data # <<>> /\ data[1].kind = "entity"
                 THEN Raise("AttributeError", 2)
                 ELSE IF data = <<>> \/ Falsy(data[1])
                 THEN Return([success |-> TRUE, data |-> summary(<< >>)], 2)
                 ELSE IF data[1].items = "casualties"
                 THEN Return([success |-> TRUE,
                              data |-> summary(data[1].casualties)], 2)
                 ELSE Return([success |-> TRUE,
                              data |-> [kind |-> "mascal summary"]], 2)

\* The body of callable f.
Body(f, arguments, http, w, signal) ==
    IF f = "done" THEN done(arguments)
    ELSE IF f = "find_nearest_facility_by_role"
         THEN Outcome(find_nearest_facility_by_role(arguments, http, w),
                      signal)
    ELSE IF f = "check_10_1_2_compliance"
         THEN Outcome(check_10_1_2_compliance(http, w), signal)
    ELSE IF f = "get_mascal_summary"
         THEN Outcome(get_mascal_summary(http, w), signal)
    ELSE Outcome(basic_tool(http, w), signal)

\* await func(keyword arguments): the binding, then the body.
Call(f, arguments, http, w, signal) ==
    IF Binds(f, arguments)
    THEN Body(f, arguments, http, w, signal) @@ [entered |-> TRUE]
    ELSE Outcome(Raise("TypeError", 0), signal) @@ [entered |-> FALSE]

(***************************************************************************)
(* ToolRegistry.execute.  It yields what Call yields, with the callable    *)
(* that was looked up (invoked) and what the call itself did (call_raised, *)
(* call_exc): the exception that leaves execute, or the value it returns.  *)
(***************************************************************************)
Executed(o, callable, call) ==
    [raised |-> o.raised, exc |-> o.exc, value |-> o.value, sent |-> call.sent,
     done |-> call.done, entered |-> call.entered, invoked |-> callable,
     call_raised |-> call.raised, call_exc |-> call.exc,
     call_value |-> call.value]

\* raise KeyError: no callable is looked up, nothing is called.
UnknownTool(signal) ==
    [raised |-> TRUE, exc |-> "KeyError", value |-> [absent |-> TRUE],
     sent |-> 0, done |-> signal, entered |-> FALSE, invoked |-> None,
     call_raised |-> FALSE, call_exc |-> None, call_value |-> [absent |-> TRUE]]

InvalidArguments ==
    [success |-> FALSE, error |-> "INVALID_ARGUMENTS",
     message |-> "Tool received invalid arguments", action |-> "correct"]

ToolExecutionError ==
    [success |-> FALSE, error |-> "TOOL_EXECUTION_ERROR",
     message |-> "Tool failed", action |-> "retry"]

execute_LookupInsideTry(tools, name, arguments, http, w, signal) ==
    IF name \notin DOMAIN tools
    THEN [UnknownTool(signal) EXCEPT !.raised = FALSE, !.exc = None,
                                     !.value = ToolExecutionError]
    ELSE LET func == tools[name]
             call == Call(func, arguments, http, w, signal)
         IN  IF ~call.raised THEN Executed(call, func, call)
             ELSE IF IsInstance(call.exc, "TypeError")
             THEN Executed(Return(InvalidArguments, 0), func, call)
             ELSE IF IsInstance(call.exc, "Exception")
             THEN Executed(Return(ToolExecutionError, 0), func, call)
             ELSE Executed(call, func, call)

execute_WrapsResult(tools, name, arguments, http, w, signal) ==
    IF name \notin DOMAIN tools THEN UnknownTool(signal)
    ELSE LET func == tools[name]
             call == Call(func, arguments, http, w, signal)
         IN  IF ~call.raised
             THEN Executed(Return([success |-> TRUE, data |-> call.value], 0),
                           func, call)
             ELSE IF IsInstance(call.exc, "TypeError")
             THEN Executed(Return(InvalidArguments, 0), func, call)
             ELSE IF IsInstance(call.exc, "Exception")
             THEN Executed(Return(ToolExecutionError, 0), func, call)
             ELSE Executed(call, func, call)

Handled_TypeErrorPasses(func, call) ==
    IF ~call.raised THEN Executed(call, func, call)
    ELSE IF IsInstance(call.exc, "Exception")
            /\ ~IsInstance(call.exc, "TypeError")
    THEN Executed(Return(ToolExecutionError, 0), func, call)
    ELSE Executed(call, func, call)

\* The try block of execute around the call of func: the value is returned
\* as it is, a TypeError and any other Exception become envelopes, and an
\* exception that is no Exception passes.
Handled(func, call) ==
    IF ~call.raised THEN Executed(call, func, call)
    ELSE IF IsInstance(call.exc, "TypeError")
    THEN Executed(Return(InvalidArguments, 0), func, call)
    ELSE IF IsInstance(call.exc, "Exception")
    THEN Executed(Return(ToolExecutionError, 0), func, call)
    ELSE Executed(call, func, call)

execute(tools, name, arguments, http, w, signal) ==
    IF name \notin DOMAIN tools THEN UnknownTool(signal)
    ELSE Handled(tools[name],
                 Call(tools[name], arguments, http, w, signal))

(***************************************************************************)
(* The language model and the worlds explored.  A simulated model is the   *)
(* set of tool calls it may issue; a scenario pairs one with the world the *)
(* backing service is in during the run.                                   *)
(***************************************************************************)
ToolCall(name, arguments) ==
    [function |-> [name |-> name, arguments |-> arguments]]

\* A call of tool f that supplies exactly its required parameters.
GoodCall(f) == ToolCall(f, [p \in RequiredParams(f) |-> "1"])

Nominal == Response(200, Json("object", TRUE, Entity(TRUE, "aware", "WIA")))

Worlds ==
    {Nominal}
    \cup {Failure(e) : e \in {"ConnectTimeout", "ReadTimeout", "ConnectError",
                              "ReadError", "RemoteProtocolError"}}
    \cup {Response(st, Undecodable) : st \in {204, 400, 404, 422, 500, 503}}
    \cup {Response(200, b) : b \in
            {Undecodable,
             Json("array", FALSE, Entities("eligible")),
             Json("scalar", FALSE, NullPayload),
             Json("object", FALSE, Entity(TRUE, "aware", "WIA"))}}
    \cup {Response(200, Json("object", TRUE, p)) : p \in
            {NullPayload, EmptyPayload,
             Entity(FALSE, "aware", "WIA"), Entity(TRUE, "missing", "WIA"),
             Entity(TRUE, "malformed", "WIA"), Entity(TRUE, "naive", "WIA"),
             Entity(TRUE, "aware", "KIA"),
             Entities("none"), Entities("low_role"), Entities("eligible"),
             Entities("no_coordinates"), Entities("null_coordinates")}}

ProbedTools ==
    {"get_entity_by_id", "check_10_1_2_compliance",
     "find_nearest_facility_by_role", "get_mascal_summary"}

Scenarios ==
    \* termination, with a well-behaved service
    {[llm |-> {GoodCall("get_entity_by_id"),
               ToolCall("done", [summary |-> "X"]),
               ToolCall("done", [summary |-> ""]),
               ToolCall("bogus", << >>)},
      world |-> Nominal],
     [llm |-> {ToolCall("done", [summary |-> None]),
               ToolCall("done", << >>),
               ToolCall("done", [summary |-> "X"])},
      world |-> Nominal],
    \* arguments that do not bind
     [llm |-> {ToolCall("get_entity_by_id", << >>),
               ToolCall("get_all_entities", [verbose |-> "1"])},
      world |-> Nominal],
     [llm |-> {ToolCall("done", [summary |-> "X", format |-> "1"]),
               ToolCall("done", [summary |-> "X"])},
      world |-> Nominal]}
    \* one tool against every world
    \cup {[llm |-> {GoodCall(f), ToolCall("done", [summary |-> "X"])},
           world |-> w] : f \in ProbedTools, w \in Worlds}

\* What the simulated model and service do during an interactive session.
SessionScenarios ==
    {[llm |-> {ToolCall("done", [summary |-> "Y"])}, world |-> Nominal],
     [llm |-> {GoodCall("get_entity_by_id"), ToolCall("bogus", << >>)},
      world |-> Nominal]}

SeqsUpTo(S, n) == UNION {[1..k -> S] : k \in 1..n}

\* What self._llm.chat may return: a message without tool calls (with a text,
\* or with an empty call list and no text), or a text with one to
\* MaxToolCalls tool calls.
AssistantMessages(llm) ==
    {[role |-> "assistant", content |-> "T"],
     [role |-> "assistant", tool_calls |-> << >>]}
    \cup {[role |-> "assistant", content |-> "T", tool_calls |-> cs] :
            cs \in SeqsUpTo(llm, MaxToolCalls)}

\* What self._llm.chat returns during the sessions explored: a text, or a
\* text with MaxToolCalls tool calls.
SessionMessages(llm) ==
    {[role |-> "assistant", content |-> "T"]}
    \cup {[role |-> "assistant", content |-> "T", tool_calls |-> cs] :
            cs \in [1..MaxToolCalls -> llm]}

\* message.get("tool_calls") is falsy.
NoToolCalls(message) ==
    "tool_calls" \notin DOMAIN message \/ message.tool_calls = << >>

\* message.get("content", "")
Content(message) ==
    IF "content" \in DOMAIN message THEN message.content ELSE ""

\* json.dumps(result, ensure_ascii=False, default=str): the text encoding v.
json_dumps(v) == [json |-> v]

Incomplete == "Analysis incomplete - agent exceeded iteration limit."

Running == {"think", "act"}
Ended   == {"returned", "raised"}

(***************************************************************************)
(* Init: the wiring of __main__.run before the first run: the client is    *)
(* constructed (not yet entered), the tools are registered and the agent   *)
(* is constructed, which registers done.  A registry without the medical   *)
(* tools is explored too.                                                  *)
(***************************************************************************)
Wirings ==
    {_register_done_tool(register_medical_tools(register_basic_tools(ToolRegistry))),
     _register_done_tool(register_basic_tools(ToolRegistry))}

Init ==
    /\ \E reg \in Wirings : _tools = reg.tools /\ _schemas = reg.schemas
    /\ _http = FALSE
    /\ contexts = 0
    /\ _done_result = None
    /\ last = << >>
    /\ pc = "idle"
    /\ messages = << >>
    /\ iteration = 0
    /\ tool_calls = << >>
    /\ result = None
    /\ error = None
    /\ _llm = {}
    /\ carried = None
    /\ world = Nominal
    /\ llm_calls = 0
    /\ conversation = << >>
    /\ agents = << >>
    /\ done_self = None

\* CMOPClient.__aenter__: a new httpx.AsyncClient is constructed and bound to
\* self._http; whatever self._http held before is not closed.
__aenter__(client) ==
    [http |-> TRUE, contexts |-> client.contexts + 1]

\* CMOPClient.__aexit__(*exc): whatever the exit path (exc is ignored), the
\* client bound to self._http, if any, is closed and the binding cleared.
__aexit__(client, exc) ==
    IF client.http
    THEN [http |-> FALSE, contexts |-> client.contexts - 1]
    ELSE client

CMOPClient == [http |-> _http, contexts |-> contexts]

\* How the body of an `async with` block is left: by running to its end
\* (None), by an exception raised inside it, or by an interruption.
ExitPaths == {None, "Exception", "CancelledError", "KeyboardInterrupt"}

\* __main__.run: `async with CMOPClient(settings) as client`, entered once.
ClientEnter ==
    /\ pc = "idle"
    /\ ~_http
    /\ _http' = __aenter__(CMOPClient).http
    /\ contexts' = __aenter__(CMOPClient).contexts
    /\ UNCHANGED <<agents, done_self, _tools, _schemas, _done_result, last, pc, messages, iteration,
                   tool_calls, result, error, _llm, carried, world, llm_calls,
                   conversation>>

\* CMOPClient.__aexit__
ClientExit ==
    /\ pc = "idle"
    /\ \E exc \in ExitPaths :
           /\ _http' = __aexit__(CMOPClient, exc).http
           /\ contexts' = __aexit__(CMOPClient, exc).contexts
    /\ UNCHANGED <<agents, done_self, _tools, _schemas, _done_result, last, pc, messages, iteration,
                   tool_calls, result, error, _llm, carried, world, llm_calls,
                   conversation>>

\* for iteration in range(1, max_iterations + 1): no iteration is left after i.
Exhausted_OffByOne(i) == i > max_iterations

Exhausted(i) == i >= max_iterations

StartRun_NoReset(scenario) ==
    /\ pc = "idle"
    /\ _done_result' = _done_result
    /\ carried' = _done_result
    /\ messages' = << [role |-> "system", content |-> "system_prompt"],
                      [role |-> "user", content |-> "user_prompt"] >>
    /\ _llm' = scenario.llm
    /\ world' = scenario.world
    /\ llm_calls' = 0
    /\ last' = << >>
    /\ tool_calls' = << >>
    /\ error' = None
    /\ iteration' = 1 /\ pc' = "think" /\ result' = None
    /\ UNCHANGED <<agents, done_self, _tools, _schemas, _http, contexts, conversation>>

\* run_loop, from its entry to the first await of self._llm.chat.
StartRun(scenario) ==
    /\ pc = "idle"
    /\ _done_result' = None
    /\ carried' = _done_result
    /\ messages' = << [role |-> "system", content |-> "system_prompt"],
                      [role |-> "user", content |-> "user_prompt"] >>
    /\ _llm' = scenario.llm
    /\ world' = scenario.world
    /\ llm_calls' = 0
    /\ last' = << >>
    /\ tool_calls' = << >>
    /\ error' = None
    /\ IF ~Exhausted(0)
       THEN iteration' = 1 /\ pc' = "think" /\ result' = None
       ELSE iteration' = 0 /\ pc' = "returned" /\ result' = Incomplete
    /\ UNCHANGED <<agents, done_self, _tools, _schemas, _http, contexts, conversation>>

Think_NoImplicitDone(message) ==
    /\ pc = "think"
    /\ llm_calls' = llm_calls + 1
    /\ messages' = Append(messages, message)
    /\ carried' = None
    /\ IF NoToolCalls(message)
       THEN /\ tool_calls' = << >>
            /\ IF ~Exhausted(iteration)
               THEN pc' = "think" /\ result' = result
                                  /\ iteration' = iteration + 1
               ELSE pc' = "returned" /\ result' = Incomplete
                                     /\ iteration' = iteration
       ELSE /\ pc' = "act"
            /\ result' = result
            /\ tool_calls' = message.tool_calls
            /\ iteration' = iteration
    /\ UNCHANGED <<agents, done_self, _tools, _schemas, _http, contexts, _done_result, last, error,
                   _llm, world, conversation>>

\* run_loop, from the model's answer to the next await or the return.
Think(message) ==
    /\ pc = "think"
    /\ llm_calls' = llm_calls + 1
    /\ messages' = Append(messages, message)
    /\ carried' = None
    /\ IF NoToolCalls(message)
       THEN /\ pc' = "returned"
            /\ result' = Content(message)
            /\ tool_calls' = << >>
       ELSE /\ pc' = "act"
            /\ result' = result
            /\ tool_calls' = message.tool_calls
    /\ UNCHANGED <<agents, done_self, _tools, _schemas, _http, contexts, _done_result, last, iteration, error,
                   _llm, world, conversation>>

\* run_loop after execute: the exception propagates, or the result is
\* appended as a tool message, the signal is checked, and the loop goes on
\* with the next call, the next iteration or the final return.
Reflect_FailureRaises(o) ==
    /\ _done_result' = o.done
    /\ tool_calls' = Tail(tool_calls)
    /\ IF o.raised \/ ~o.value.success
       THEN /\ pc' = "raised"
            /\ error' = IF o.raised THEN o.exc ELSE "RuntimeError"
            /\ UNCHANGED <<messages, result, iteration>>
       ELSE /\ messages' = Append(messages,
                   [role |-> "tool", content |-> json_dumps(o.value)])
            /\ error' = error
            /\ IF o.done # None
               THEN pc' = "returned" /\ result' = o.done
                                     /\ iteration' = iteration
               ELSE IF Tail(tool_calls) # << >>
               THEN pc' = "act" /\ result' = result /\ iteration' = iteration
               ELSE IF ~Exhausted(iteration)
               THEN pc' = "think" /\ result' = result
                                  /\ iteration' = iteration + 1
               ELSE pc' = "returned" /\ result' = Incomplete
                                     /\ iteration' = iteration

Reflect_ChecksSignalAfterCalls(o) ==
    /\ _done_result' = o.done
    /\ tool_calls' = Tail(tool_calls)
    /\ IF o.raised
       THEN /\ pc' = "raised"
            /\ error' = o.exc
            /\ UNCHANGED <<messages, result, iteration>>
       ELSE /\ messages' = Append(messages,
                   [role |-> "tool", content |-> json_dumps(o.value)])
            /\ error' = error
            /\ IF Tail(tool_calls) # << >>
               THEN pc' = "act" /\ result' = result /\ iteration' = iteration
               ELSE IF o.done # None
               THEN pc' = "returned" /\ result' = o.done
                                     /\ iteration' = iteration
               ELSE IF ~Exhausted(iteration)
               THEN pc' = "think" /\ result' = result
                                  /\ iteration' = iteration + 1
               ELSE pc' = "returned" /\ result' = Incomplete
                                     /\ iteration' = iteration

Reflect_OverwritesLastMessage(o) ==
    /\ _done_result' = o.done
    /\ tool_calls' = Tail(tool_calls)
    /\ IF o.raised
       THEN /\ pc' = "raised"
            /\ error' = o.exc
            /\ UNCHANGED <<messages, result, iteration>>
       ELSE /\ messages' = [messages EXCEPT ![Len(messages)] =
                   [role |-> "tool", content |-> json_dumps(o.value)]]
            /\ error' = error
            /\ IF o.done # None
               THEN pc' = "returned" /\ result' = o.done
                                     /\ iteration' = iteration
               ELSE IF Tail(tool_calls) # << >>
               THEN pc' = "act" /\ result' = result /\ iteration' = iteration
               ELSE IF ~Exhausted(iteration)
               THEN pc' = "think" /\ result' = result
                                  /\ iteration' = iteration + 1
               ELSE pc' = "returned" /\ result' = Incomplete
                                     /\ iteration' = iteration

Reflect_SkipsRestOnFailure(o) ==
    /\ _done_result' = o.done
    /\ IF o.raised
       THEN /\ pc' = "raised"
            /\ error' = o.exc
            /\ tool_calls' = Tail(tool_calls)
            /\ UNCHANGED <<messages, result, iteration>>
       ELSE /\ messages' = Append(messages,
                   [role |-> "tool", content |-> json_dumps(o.value)])
            /\ error' = error
            /\ tool_calls' = IF o.value.success THEN Tail(tool_calls)
                                                ELSE << >>
            /\ IF o.done # None
               THEN pc' = "returned" /\ result' = o.done
                                     /\ iteration' = iteration
               ELSE IF Tail(tool_calls) # << >> /\ o.value.success
               THEN pc' = "act" /\ result' = result /\ iteration' = iteration
               ELSE IF ~Exhausted(iteration)
               THEN pc' = "think" /\ result' = result
                                  /\ iteration' = iteration + 1
               ELSE pc' = "returned" /\ result' = Incomplete
                                     /\ iteration' = iteration

Reflect(o) ==
    /\ _done_result' = o.done
    /\ tool_calls' = Tail(tool_calls)
    /\ IF o.raised
       THEN /\ pc' = "raised"
            /\ error' = o.exc
            /\ UNCHANGED <<messages, result, iteration>>
       ELSE /\ messages' = Append(messages,
                   [role |-> "tool", content |-> json_dumps(o.value)])
            /\ error' = error
            /\ IF o.done # None
               THEN pc' = "returned" /\ result' = o.done
                                     /\ iteration' = iteration
               ELSE IF Tail(tool_calls) # << >>
               THEN pc' = "act" /\ result' = result /\ iteration' = iteration
               ELSE IF ~Exhausted(iteration)
               THEN pc' = "think" /\ result' = result
                                  /\ iteration' = iteration + 1
               ELSE pc' = "returned" /\ result' = Incomplete
                                     /\ iteration' = iteration

Act_LastCallFirst ==
    /\ pc = "act"
    /\ LET name == tool_calls[Len(tool_calls)].function.name
           args == tool_calls[Len(tool_calls)].function.arguments
           o    == execute(_tools, name, args, _http, world, _done_result)
       IN  /\ last' = << [name |-> name, arguments |-> args, outcome |-> o] >>
           /\ Reflect(o)
    /\ UNCHANGED <<agents, done_self, _tools, _schemas, _http, contexts, _llm, carried, world, llm_calls,
                   conversation>>

\* run_loop, one tool call of the current assistant message.
Act ==
    /\ pc = "act"
    /\ LET name == Head(tool_calls).function.name
           args == Head(tool_calls).function.arguments
           o    == execute(_tools, name, args, _http, world, _done_result)
       IN  /\ last' = << [name |-> name, arguments |-> args, outcome |-> o] >>
           /\ Reflect(o)
    /\ UNCHANGED <<agents, done_self, _tools, _schemas, _http, contexts, _llm, carried, world, llm_calls,
                   conversation>>

\* interactive_session, from its entry to the first prompt for input.
StartSession(scenario) ==
    /\ pc = "idle"
    /\ conversation' = << [role |-> "system", content |-> "system_prompt"] >>
    /\ _llm' = scenario.llm
    /\ world' = scenario.world
    /\ pc' = "input"
    /\ last' = << >>
    /\ error' = None
    /\ UNCHANGED <<agents, done_self, _tools, _schemas, _http, contexts, _done_result, messages, iteration,
                   tool_calls, result, carried, llm_calls>>

\* The questions put so far in the session.
Questions == Len(SelectSeq(conversation, LAMBDA m : m.role = "user"))

\* interactive_session: a question is read and the turn's loop starts.  (An
\* empty input changes nothing and prompts again.)
Ask ==
    /\ pc = "input"
    /\ Questions < MaxQuestions
    /\ conversation' = Append(conversation,
                              [role |-> "user", content |-> "user_input"])
    /\ llm_calls' = 0
    /\ result' = None
    /\ IF ~Exhausted(0)
       THEN iteration' = 1 /\ pc' = "session_think"
       ELSE iteration' = 0 /\ pc' = "input"
    /\ UNCHANGED <<agents, done_self, _tools, _schemas, _http, contexts,
                   _done_result, last, messages, tool_calls, error, _llm,
                   carried, world>>

\* interactive_session: quit, exit, q, end of input or an interrupt.
Quit ==
    /\ pc = "input"
    /\ pc' = "idle"
    /\ conversation' = << >>
    /\ iteration' = 0
    /\ tool_calls' = << >>
    /\ last' = << >>
    /\ llm_calls' = 0
    /\ _llm' = {}
    /\ world' = Nominal
    /\ result' = None
    /\ UNCHANGED <<agents, done_self, _tools, _schemas, _http, contexts,
                   _done_result, messages, error, carried>>

\* interactive_session, from the model's answer to the next await: the
\* answer is printed and the turn ends, or its tool calls are taken up.
SessionThink(message) ==
    /\ pc = "session_think"
    /\ llm_calls' = llm_calls + 1
    /\ conversation' = Append(conversation, message)
    /\ IF NoToolCalls(message)
       THEN pc' = "input" /\ tool_calls' = << >> /\ result' = Content(message)
       ELSE pc' = "session_act" /\ tool_calls' = message.tool_calls
            /\ result' = result
    /\ UNCHANGED <<agents, done_self, _tools, _schemas, _http, contexts,
                   _done_result, last, messages, iteration, error, _llm,
                   carried, world>>

\* interactive_session, one tool call of the current assistant message: the
\* exception propagates, or the result is appended and the loops go on; the
\* signal is not read, and nothing is printed when the iterations run out.
SessionAct ==
    /\ pc = "session_act"
    /\ LET name == Head(tool_calls).function.name
           args == Head(tool_calls).function.arguments
           o    == execute(_tools, name, args, _http, world, _done_result)
       IN  /\ last' = << [name |-> name, arguments |-> args, outcome |-> o] >>
           /\ _done_result' = o.done
           /\ tool_calls' = Tail(tool_calls)
           /\ IF o.raised
              THEN /\ pc' = "raised"
                   /\ error' = o.exc
                   /\ UNCHANGED <<conversation, iteration>>
              ELSE /\ conversation' = Append(conversation,
                          [role |-> "tool", content |-> json_dumps(o.value)])
                   /\ error' = error
                   /\ IF Tail(tool_calls) # << >>
                      THEN pc' = "session_act" /\ iteration' = iteration
                      ELSE IF ~Exhausted(iteration)
                      THEN pc' = "session_think" /\ iteration' = iteration + 1
                      ELSE pc' = "input" /\ iteration' = iteration
    /\ UNCHANGED <<agents, done_self, _tools, _schemas, _http, contexts, messages, result, _llm, carried,
                   world, llm_calls>>

\* The exceptions an external interruption raises at the await in progress.
Interruptions == {"CancelledError", "KeyboardInterrupt"}

\* An await of interactive_session (self._llm.chat at agent.py:168, or
\* self._tools.execute at agent.py:187) is interrupted from outside: the
\* exception is raised at the await.  Neither derives from Exception, so
\* execute's handlers let it pass; interactive_session has no handler around
\* its awaits (the one at agent.py:151-155 covers input() only), so the
\* exception leaves interactive_session.
Interrupt(exc) ==
    /\ pc \in {"session_think", "session_act"}
    /\ ~IsInstance(exc, "Exception")
    /\ pc' = "raised"
    /\ error' = exc
    /\ UNCHANGED <<agents, done_self, _tools, _schemas, _http, contexts, _done_result, last, messages,
                   iteration, tool_calls, result, _llm, carried, world,
                   llm_calls, conversation>>

\* run_loop or interactive_session has returned or raised: its frame
\* (messages, conversation, iteration) is gone and the caller has taken the
\* result or the exception.
Resume ==
    /\ pc \in Ended
    /\ pc' = "idle"
    /\ messages' = << >>
    /\ conversation' = << >>
    /\ iteration' = 0
    /\ tool_calls' = << >>
    /\ last' = << >>
    /\ llm_calls' = 0
    /\ _llm' = {}
    /\ world' = Nominal
    /\ result' = None
    /\ error' = None
    /\ UNCHANGED <<agents, done_self, _tools, _schemas, _http, contexts, _done_result, carried>>

Next ==
    \/ ClientEnter
    \/ ClientExit
    \/ \E scenario \in Scenarios : StartRun(scenario)
    \/ \E message \in AssistantMessages(_llm) : Think(message)
    \/ Act
    \/ \E scenario \in SessionScenarios : StartSession(scenario)
    \/ Ask
    \/ Quit
    \/ \E message \in SessionMessages(_llm) : SessionThink(message)
    \/ SessionAct
    \/ Resume

Spec == Init /\ [][Next]_vars

\* The same program in an environment that may interrupt a wait of the
\* interactive session (task cancellation, Ctrl-C) at any turn.
NextInterrupted ==
    \/ Next
    \/ \E exc \in Interruptions : Interrupt(exc)

SpecInterrupted == Init /\ [][NextInterrupted]_vars

(***************************************************************************)
(* The registry on its own: any sequence of register calls on a new        *)
(* ToolRegistry.  The agent and the client stay as constructed.            *)
(***************************************************************************)
RegistryNames ==
    {"done", "get_entity_by_id", "get_nearby_entities", "get_schema",
     "sample_tool"}

\* ToolRegistry.schemas: a copy of the descriptor list.
schemas == _schemas

\* ToolRegistry.tool_names
tool_names == DOMAIN _tools

InitRegistry ==
    /\ _tools = ToolRegistry.tools /\ _schemas = ToolRegistry.schemas
    /\ _http = FALSE
    /\ contexts = 0
    /\ _done_result = None
    /\ last = << >>
    /\ pc = "idle"
    /\ messages = << >>
    /\ iteration = 0
    /\ tool_calls = << >>
    /\ result = None
    /\ error = None
    /\ _llm = {}
    /\ carried = None
    /\ world = Nominal
    /\ llm_calls = 0
    /\ conversation = << >>
    /\ agents = << >>
    /\ done_self = None

\* registry.register(func): it returns func and raises nothing.
Register(func) ==
    /\ Len(_schemas) < MaxRegistrations
    /\ LET reg == register([tools |-> _tools, schemas |-> _schemas], func)
       IN  _tools' = reg.tools /\ _schemas' = reg.schemas
    /\ UNCHANGED <<agents, done_self, _http, contexts, _done_result, last, pc,
                   messages, iteration,
                   tool_calls, result, error, _llm, carried, world, llm_calls,
                   conversation>>

NextRegistry == \E func \in RegistryNames : Register(func)

SpecRegistry == InitRegistry /\ [][NextRegistry]_vars

(***************************************************************************)
(* The transport client on its own: any sequence of scope entries, scope   *)
(* exits and GET requests on one CMOPClient, nested entries included.      *)
(***************************************************************************)
\* `async with client:` is entered: __aenter__ runs.
ScopeEnter ==
    /\ contexts < MaxContexts
    /\ _http' = __aenter__(CMOPClient).http
    /\ contexts' = __aenter__(CMOPClient).contexts
    /\ UNCHANGED <<agents, done_self, _tools, _schemas, _done_result, last, pc, messages, iteration,
                   tool_calls, result, error, _llm, carried, world, llm_calls,
                   conversation>>

\* The block is left on any path: __aexit__ runs with that path's exc.
ScopeExit(exc) ==
    /\ _http' = __aexit__(CMOPClient, exc).http
    /\ contexts' = __aexit__(CMOPClient, exc).contexts
    /\ UNCHANGED <<agents, done_self, _tools, _schemas, _done_result, last, pc, messages, iteration,
                   tool_calls, result, error, _llm, carried, world, llm_calls,
                   conversation>>

\* client._get(path, params) against a backing service that behaves as w.
\* The observation keeps whether a client was bound when the call was made.
Get(w) ==
    /\ world' = w
    /\ last' = << [name |-> "_get", arguments |-> << >>, bound |-> _http,
                   outcome |-> _get(_http, w)] >>
    /\ UNCHANGED <<agents, done_self, _tools, _schemas, _http, contexts, _done_result, pc, messages,
                   iteration, tool_calls, result, error, _llm, carried,
                   llm_calls, conversation>>

NextClient ==
    \/ ScopeEnter
    \/ \E exc \in ExitPaths : ScopeExit(exc)
    \/ \E w \in Worlds : Get(w)

SpecClient == Init /\ [][NextClient]_vars

(***************************************************************************)
(* Several agents over one registry.  Each CMOPObserverAgent constructed   *)
(* with the same ToolRegistry registers its own closure under the name     *)
(* done; the closure assigns the _done_result of the agent that made it.   *)
(* A run is followed one iteration at a time, the model issuing one tool   *)
(* call per assistant message or none.                                     *)
(***************************************************************************)
Agents == {"a1", "a2"}

\* The tool calls the model issues in this specification.
AgentCalls == {ToolCall("done", [summary |-> "Y"]), GoodCall("get_schema")}

InitAgents ==
    /\ LET reg == register_basic_tools(ToolRegistry)
       IN  _tools = reg.tools /\ _schemas = reg.schemas
    /\ _http = FALSE
    /\ contexts = 0
    /\ _done_result = None
    /\ last = << >>
    /\ pc = "idle"
    /\ messages = << >>
    /\ iteration = 0
    /\ tool_calls = << >>
    /\ result = None
    /\ error = None
    /\ _llm = {}
    /\ carried = None
    /\ world = Nominal
    /\ llm_calls = 0
    /\ conversation = << >>
    /\ agents = << >>
    /\ done_self = None

\* CMOPObserverAgent.__init__ for agent a over the shared registry:
\* self._done_result = None, then _register_done_tool registers a's closure.
Construct(a) ==
    /\ a \notin DOMAIN agents
    /\ agents' = [b \in DOMAIN agents \cup {a} |->
                     IF b = a
                     THEN [_done_result |-> None, pc |-> "idle",
                           iteration |-> 0, result |-> None]
                     ELSE agents[b]]
    /\ LET reg == _register_done_tool([tools |-> _tools, schemas |-> _schemas])
       IN  _tools' = reg.tools /\ _schemas' = reg.schemas
    /\ done_self' = a
    /\ UNCHANGED <<_http, contexts, _done_result, last, pc, messages, iteration,
                   tool_calls, result, error, _llm, carried, world, llm_calls,
                   conversation>>

\* a.run_loop is entered: the signal is reset, the first iteration begins.
AgentStart(a) ==
    /\ a \in DOMAIN agents
    /\ agents[a].pc \in {"idle", "returned"}
    /\ agents' = [agents EXCEPT ![a] =
                     IF ~Exhausted(0)
                     THEN [_done_result |-> None, pc |-> "think",
                           iteration |-> 1, result |-> None]
                     ELSE [_done_result |-> None, pc |-> "returned",
                           iteration |-> 0, result |-> Incomplete]]
    /\ UNCHANGED <<done_self, _tools, _schemas, _http, contexts, _done_result,
                   last, pc, messages, iteration, tool_calls, result, error,
                   _llm, carried, world, llm_calls, conversation>>

\* One iteration of a.run_loop whose assistant message has no tool calls.
AgentAnswer(a) ==
    /\ a \in DOMAIN agents
    /\ agents[a].pc = "think"
    /\ agents' = [agents EXCEPT ![a].pc = "returned", ![a].result = "T"]
    /\ UNCHANGED <<done_self, _tools, _schemas, _http, contexts, _done_result,
                   last, pc, messages, iteration, tool_calls, result, error,
                   _llm, carried, world, llm_calls, conversation>>

\* One iteration of a.run_loop whose assistant message holds one tool call:
\* the registry executes what it binds to the name (the done closure assigns
\* the signal of the agent it captured), then a reads its own signal.
AgentStep(a, call) ==
    /\ a \in DOMAIN agents
    /\ agents[a].pc = "think"
    /\ LET o == execute(_tools, call.function.name, call.function.arguments,
                        _http, world, agents[done_self]._done_result)
           assigned == [agents EXCEPT ![done_self]._done_result = o.done]
       IN  /\ last' = << [name |-> call.function.name,
                          arguments |-> call.function.arguments,
                          outcome |-> o] >>
           /\ agents' =
                IF o.raised
                THEN [assigned EXCEPT ![a].pc = "raised"]
                ELSE IF assigned[a]._done_result # None
                THEN [assigned EXCEPT ![a].pc = "returned",
                                      ![a].result = assigned[a]._done_result]
                ELSE IF ~Exhausted(assigned[a].iteration)
                THEN [assigned EXCEPT ![a].iteration = @ + 1]
                ELSE [assigned EXCEPT ![a].pc = "returned",
                                      ![a].result = Incomplete]
    /\ UNCHANGED <<done_self, _tools, _schemas, _http, contexts, _done_result,
                   pc, messages, iteration, tool_calls, result, error, _llm,
                   carried, world, llm_calls, conversation>>

NextAgents ==
    \E a \in Agents :
        \/ Construct(a)
        \/ AgentStart(a)
        \/ AgentAnswer(a)
        \/ \E call \in AgentCalls : AgentStep(a, call)

SpecAgents == InitAgents /\ [][NextAgents]_vars

(***************************************************************************)
(* The medical analysis tools on their own: the client is inside its       *)
(* scope, the backing service holds one casualty or one list of            *)
(* casualties, and the tools are executed through the registry.            *)
(***************************************************************************)
TriageColours == {"RED", "YELLOW", "GREEN", "BLACK"}
EvacStages    == {"at_poi", "in_transit", "delivered", "unknown"}

\* A casualty injured m minutes and s seconds ago.
CasualtyWorlds ==
    {Response(200, Json("object", TRUE,
                        Casualty(triage, stage, status, priority, 60 * m + s))) :
        triage \in TriageColours, stage \in EvacStages,
        status \in {"WIA", "KIA"}, priority \in {"URGENT", "ROUTINE"},
        m \in (-1)..MaxElapsed, s \in {0, 30}}

\* reds RED casualties followed by others casualties of another colour;
\* every second casualty is still at the point of injury.
CasualtyList(reds, others, colour) ==
    [i \in 1..(reds + others) |->
        Casualty(IF i <= reds THEN "RED" ELSE colour,
                 IF i % 2 = 1 THEN "at_poi" ELSE "in_transit",
                 "WIA", "ROUTINE", 0) @@ [id |-> i]]

CasualtyListWorlds ==
    {Response(200, Json("object", TRUE,
                        Casualties(CasualtyList(reds, others, colour)))) :
        reds \in 0..MaxRed, others \in 0..MaxOthers,
        colour \in {"YELLOW", "GREEN"}}

InitMedical ==
    /\ LET reg == _register_done_tool(
                      register_medical_tools(register_basic_tools(ToolRegistry)))
       IN  _tools = reg.tools /\ _schemas = reg.schemas
    /\ _http = TRUE
    /\ contexts = 1
    /\ _done_result = None
    /\ last = << >>
    /\ pc = "idle"
    /\ messages = << >>
    /\ iteration = 0
    /\ tool_calls = << >>
    /\ result = None
    /\ error = None
    /\ _llm = {}
    /\ carried = None
    /\ world \in CasualtyWorlds \cup CasualtyListWorlds
    /\ llm_calls = 0
    /\ conversation = << >>
    /\ agents = << >>
    /\ done_self = None

\* registry.execute(f, arguments) with arguments that bind.
Execute(f) ==
    /\ last' = << [name |-> f,
                   arguments |-> GoodCall(f).function.arguments,
                   outcome |-> execute(_tools, f,
                                       GoodCall(f).function.arguments,
                                       _http, world, _done_result)] >>
    /\ UNCHANGED <<agents, done_self, _tools, _schemas, _http, contexts,
                   _done_result, pc, messages, iteration, tool_calls, result,
                   error, _llm, carried, world, llm_calls, conversation>>

NextMedical ==
    \E f \in {"check_10_1_2_compliance", "get_mascal_summary"} : Execute(f)

SpecMedical == InitMedical /\ [][NextMedical]_vars

(***************************************************************************)
(* The ETA estimate on its own: it is applied to one distance and speed    *)
(* after another; the latest two applications are kept.                    *)
(***************************************************************************)
Distances == {k * DistanceStep : k \in 0..MaxSteps}

\* Ground speeds in km/h: the default of 60 and a slower one.
Speeds == {30, 60}

Estimate(distance_m, speed_kmh) ==
    /\ last' = << [name |-> "estimate_ground_eta",
                   arguments |-> [distance_m |-> distance_m,
                                  speed_kmh |-> speed_kmh],
                   outcome |-> estimate_ground_eta(distance_m, speed_kmh)] >>
                \o (IF last = << >> THEN << >> ELSE << last[1] >>)
    /\ UNCHANGED <<agents, done_self, _tools, _schemas, _http, contexts,
                   _done_result, pc, messages, iteration, tool_calls, result,
                   error, _llm, carried, world, llm_calls, conversation>>

NextEta ==
    \E distance_m \in Distances, speed_kmh \in Speeds :
        Estimate(distance_m, speed_kmh)

SpecEta == Init /\ [][NextEta]_vars

(***************************************************************************)
(* The nearest-facility search on its own: the client is inside its scope, *)
(* the radius query returns one list of entities, and the tool is executed *)
(* through the registry with one minimum role after another.               *)
(***************************************************************************)
\* The entities a list is made of: an aid post at 1000.5 m and a surgical
\* facility at 1000 m (the same whole metres), a field hospital at 30 km,
\* and a unit that is no medical facility at 5 m.
EntityKinds ==
    {[categoria |-> "medical_facility", tipo_elemento |-> "medical_role_1",
      dist2 |-> 2001],
     [categoria |-> "medical_facility",
      tipo_elemento |-> "medical_role_2enhanced", dist2 |-> 2000],
     [categoria |-> "medical_facility",
      tipo_elemento |-> "medical_facility_multinational", dist2 |-> 60000],
     [categoria |-> "unit", tipo_elemento |-> "medical_role_4", dist2 |-> 10]}

\* Every list of up to MaxEntities such entities; the id is the place in
\* the list.
NearbyLists ==
    UNION {{[i \in 1..n |-> es[i] @@ [id |-> i]] : es \in [1..n -> EntityKinds]} :
              n \in 0..MaxEntities}

\* A facility at 4.5 km followed by an aid post at 1000.5 m, the first with
\* each role tag in turn, with a tag that is no FacilityRole, and with no
\* tag.
TagLists ==
    {<<[id |-> 1, categoria |-> "medical_facility", tipo_elemento |-> tag,
        dist2 |-> 9000],
       [id |-> 2, categoria |-> "medical_facility",
        tipo_elemento |-> "medical_role_1", dist2 |-> 2001]>> :
        tag \in FacilityRoles \cup {"hospital_ship"}}
    \cup {<<[id |-> 1, categoria |-> "medical_facility", dist2 |-> 9000],
            [id |-> 2, categoria |-> "medical_facility",
             tipo_elemento |-> "medical_role_1", dist2 |-> 2001]>>}

NearbyWorlds ==
    {Response(200, Json("object", TRUE, Nearby(entities))) :
        entities \in NearbyLists \cup TagLists}

InitFacilities ==
    /\ LET reg == _register_done_tool(
                      register_medical_tools(register_basic_tools(ToolRegistry)))
       IN  _tools = reg.tools /\ _schemas = reg.schemas
    /\ _http = TRUE
    /\ contexts = 1
    /\ _done_result = None
    /\ last = << >>
    /\ pc = "idle"
    /\ messages = << >>
    /\ iteration = 0
    /\ tool_calls = << >>
    /\ result = None
    /\ error = None
    /\ _llm = {}
    /\ carried = None
    /\ world \in NearbyWorlds
    /\ llm_calls = 0
    /\ conversation = << >>
    /\ agents = << >>
    /\ done_self = None

\* The minimum roles asked for: every level, none (0) and one above all.
MinRoles == 0..5

\* The argument mappings of the calls: min_role left to its default of 1,
\* or given.
FindArguments ==
    {[casualty_lat |-> "1", casualty_lng |-> "1"]}
    \cup {[casualty_lat |-> "1", casualty_lng |-> "1", min_role |-> r] :
             r \in MinRoles}

\* registry.execute("find_nearest_facility_by_role", arguments), once for
\* the list the service holds.
Find(arguments) ==
    /\ last = << >>
    /\ last' = << [name |-> "find_nearest_facility_by_role",
                   arguments |-> arguments,
                   outcome |-> execute(_tools, "find_nearest_facility_by_role",
                                       arguments, _http, world,
                                       _done_result)] >>
    /\ UNCHANGED <<agents, done_self, _tools, _schemas, _http, contexts,
                   _done_result, pc, messages, iteration, tool_calls, result,
                   error, _llm, carried, world, llm_calls, conversation>>

NextFacilities == \E arguments \in FindArguments : Find(arguments)

SpecFacilities == InitFacilities /\ [][NextFacilities]_vars

(***************************************************************************)
(* Properties.                                                             *)
(***************************************************************************)
Has(v, k, x) == k \in DOMAIN v /\ v[k] = x

Registered(name) == name \in DOMAIN _tools

\* The keys of the mapping do not fit the parameters of f: a key is no
\* parameter of f, or a parameter of f without default has no key.
Mismatch(f, arguments) ==
    \/ \E k \in DOMAIN arguments :
          \A i \in 1..Len(Signature(f)) : Signature(f)[i].name # k
    \/ \E i \in 1..Len(Signature(f)) :
          /\ Signature(f)[i].default.kind = "empty"
          /\ Signature(f)[i].name \notin DOMAIN arguments

\* C1: execute on a name that is not registered raises the unknown-tool
\* error (KeyError) to its caller: no envelope is returned and none reaches
\* the history, no callable is invoked, and the registry's tools and
\* descriptors are left as they were.
C1_UnknownToolRaises ==
    [][ (pc = "act" /\ ~Registered(Head(tool_calls).function.name))
        => /\ last'[1].outcome.raised
           /\ last'[1].outcome.exc = "KeyError"
           /\ last'[1].outcome.value = [absent |-> TRUE]
           /\ last'[1].outcome.invoked = None
           /\ ~last'[1].outcome.entered
           /\ pc' = "raised" /\ error' = "KeyError"
           /\ messages' = messages
           /\ _done_result' = _done_result
           /\ _tools' = _tools /\ _schemas' = _schemas ]_vars

C1_Witness ==
    /\ pc = "raised" /\ error = "KeyError"
    /\ last # << >>
    /\ last[1].name = "check_10_1_2_compliance"
    /\ ~Registered(last[1].name)

\* C2: execute on a registered tool with an argument mapping whose keys do
\* not bind to the tool's parameters returns {success: false, error:
\* INVALID_ARGUMENTS, action: correct}; nothing is raised and the body of
\* the tool does not run.
C2_MismatchedArguments ==
    last # << >> =>
        LET c == last[1]
        IN  (Registered(c.name) /\ Mismatch(_tools[c.name], c.arguments))
            => /\ ~c.outcome.raised
               /\ Has(c.outcome.value, "success", FALSE)
               /\ Has(c.outcome.value, "error", "INVALID_ARGUMENTS")
               /\ Has(c.outcome.value, "action", "correct")
               /\ ~c.outcome.entered
               /\ pc # "raised"

C2_Witness ==
    /\ last # << >>
    /\ last[1].name = "get_all_entities"
    /\ DOMAIN last[1].arguments = {"verbose"}
    /\ Has(last[1].outcome.value, "error", "INVALID_ARGUMENTS")

\* C3: when the arguments bind and the body of the tool raises an exception,
\* of whatever type, execute returns {success: false, error:
\* TOOL_EXECUTION_ERROR, action: retry}: it neither raises nor reports
\* INVALID_ARGUMENTS.
C3_BodyExceptionIsExecutionError ==
    last # << >> =>
        LET o == last[1].outcome
        IN  (o.entered /\ o.call_raised)
            => /\ ~o.raised
               /\ Has(o.value, "success", FALSE)
               /\ Has(o.value, "error", "TOOL_EXECUTION_ERROR")
               /\ Has(o.value, "action", "retry")

\* C4: when the callable of a registered tool returns a value without
\* raising, execute returns exactly that value: for done the two-field
\* success record, for a basic tool the dump of the transport response.
C4_ResultPassesThrough ==
    last # << >> =>
        LET c == last[1]
            o == last[1].outcome
        IN  /\ (o.entered /\ ~o.call_raised)
                => (~o.raised /\ o.value = o.call_value /\ pc # "raised")
            /\ (c.name = "done" /\ DOMAIN c.arguments = {"summary"})
                => o.value = [success |-> TRUE, message |-> "Analysis complete."]
            /\ (c.name = "get_entity_by_id" /\ DOMAIN c.arguments = {"entity_id"}
                    /\ _http /\ world = Nominal)
                => o.value = [success |-> TRUE,
                              data |-> Entity(TRUE, "aware", "WIA")]

C4_Witness ==
    /\ last # << >>
    /\ last[1].name = "get_entity_by_id"
    /\ last[1].outcome.entered
    /\ Has(last[1].outcome.value, "data", Entity(TRUE, "aware", "WIA"))
    /\ pc \in Running

\* The tools whose body starts with a transport call.
TransportBacked(name) == name \in BasicTools \cup MedicalTools

\* The action the taxonomy recommends when the call fails for bad arguments,
\* domain absence or a transport fault; "none" for any other call.
FaultAction(call) ==
    LET name == call.function.name
        args == call.function.arguments
    IN  IF ~Registered(name) THEN "none"
        ELSE IF Mismatch(_tools[name], args) THEN "correct"
        ELSE IF ~TransportBacked(name) \/ ~_http THEN "none"
        ELSE IF world.kind = "exception"
        THEN IF world.exc \in {"ConnectTimeout", "ReadTimeout", "ConnectError",
                               "ReadError"}
             THEN "retry" ELSE "none"
        ELSE IF world.status = 404 THEN "inform"
        ELSE IF world.status >= 500 THEN "retry"
        ELSE IF world.status >= 400 THEN "correct"
        ELSE IF ~world.body.decodes THEN "retry"
        ELSE IF /\ name = "check_10_1_2_compliance"
                /\ world.body.type = "object"
                /\ \/ world.body.payload.kind \in {"null", "empty"}
                   \/ /\ world.body.payload.kind = "entity"
                      /\ \/ ~world.body.payload.medical
                         \/ world.body.payload.created_at
                                \in {"missing", "malformed"}
        THEN "inform"
        ELSE "none"

\* C5: in run_loop a tool call that fails for bad arguments, domain absence
\* or a transport fault never makes run_loop raise: exactly one tool message
\* carrying a failure envelope with the recommended action is appended, and
\* the loop goes on with the next call, or the next model turn (the fixed
\* incomplete result when no iteration is left).
C5_FaultsBecomeEnvelopes ==
    [][ (pc = "act" /\ FaultAction(Head(tool_calls)) # "none")
        => LET m == messages'[Len(messages')]
           IN  /\ pc' # "raised" /\ error' = error
               /\ messages' = Append(messages, m)
               /\ m.role = "tool"
               /\ Has(m.content.json, "success", FALSE)
               /\ "error" \in DOMAIN m.content.json
               /\ Has(m.content.json, "action", FaultAction(Head(tool_calls)))
               /\ IF Len(tool_calls) > 1
                  THEN pc' = "act" /\ tool_calls' = Tail(tool_calls)
                                   /\ iteration' = iteration
                  ELSE IF iteration < max_iterations
                  THEN pc' = "think" /\ iteration' = iteration + 1
                  ELSE pc' = "returned" /\ result' = Incomplete ]_vars

C5_Witness ==
    /\ pc = "think"
    /\ world = Failure("ReadTimeout")
    /\ messages[Len(messages)].role = "tool"
    /\ Has(messages[Len(messages)].content.json, "error", "TIMEOUT")
    /\ Has(messages[Len(messages)].content.json, "action", "retry")

\* C6: a transport-backed tool call dispatched while the transport client is
\* not initialized is fatal: the RuntimeError leaves execute and run_loop and
\* no envelope is handed to the model.
C6_UninitializedClientIsFatal ==
    last # << >> =>
        LET c == last[1]
        IN  (/\ Registered(c.name) /\ TransportBacked(c.name)
             /\ ~Mismatch(_tools[c.name], c.arguments)
             /\ ~_http)
            => /\ c.outcome.raised
               /\ c.outcome.exc = "RuntimeError"
               /\ pc = "raised" /\ error = "RuntimeError"

AssistantTurns(n) ==
    Cardinality({j \in 1..n : messages[j].role = "assistant"})

\* C7: at the first turn whose assistant message has no tool calls, run_loop
\* returns that message's text (the empty text when it has none) at once:
\* nothing follows the message in the history, no tool runs in that turn and
\* the model is not called again.
C7_NoToolCallsReturnsContent ==
    \A i \in 1..Len(messages) :
        (/\ messages[i].role = "assistant"
         /\ \/ "tool_calls" \notin DOMAIN messages[i]
            \/ messages[i].tool_calls = << >>)
        => /\ i = Len(messages)
           /\ pc = "returned"
           /\ result = IF "content" \in DOMAIN messages[i]
                       THEN messages[i].content ELSE ""
           /\ llm_calls = AssistantTurns(i)
           /\ tool_calls = << >>

C7_Witness ==
    /\ pc = "returned"
    /\ Len(messages) = 3
    /\ messages[3] = [role |-> "assistant", content |-> "T"]
    /\ result = "T"
    /\ iteration < max_iterations

\* C8: when the done tool is executed on turn k with summary X (a string),
\* run_loop returns exactly X on that turn, whatever the number of
\* iterations left and the text of the assistant message.
C8_DoneReturnsSummary ==
    last # << >> =>
        LET c == last[1]
        IN  (/\ pc \in Running \cup Ended
             /\ c.name = "done" /\ Registered("done")
             /\ DOMAIN c.arguments = {"summary"}
             /\ c.arguments["summary"] # None)
            => /\ pc = "returned"
               /\ result = c.arguments["summary"]
               /\ llm_calls = iteration

C8_Witness ==
    /\ pc = "returned"
    /\ iteration = 2
    /\ last # << >> /\ last[1].name = "done"
    /\ result = "X"
    /\ \E i \in 1..Len(messages) :
          messages[i].role = "assistant" /\ Has(messages[i], "content", "T")

\* C9: a run makes at most max_iterations model calls and appends at most
\* 1 + MaxToolCalls messages per call; a run that returns after turns that
\* all issued tool calls, with the signal never set, returns the fixed
\* incomplete string after exactly max_iterations calls, and that string is
\* returned in no other case.
C9_BoundedModelCalls ==
    /\ llm_calls <= max_iterations
    /\ (pc = "think" => llm_calls < max_iterations)
    /\ Len(messages) <= 2 + llm_calls * (1 + MaxToolCalls)
    /\ (/\ pc = "returned"
        /\ _done_result = None
        /\ \A i \in 1..Len(messages) :
              messages[i].role = "assistant"
                  => /\ "tool_calls" \in DOMAIN messages[i]
                     /\ messages[i].tool_calls # << >>)
       => (result = Incomplete /\ llm_calls = max_iterations)
    /\ (pc = "returned" /\ result = Incomplete)
       => (llm_calls = max_iterations /\ _done_result = None
           /\ messages[Len(messages)].role = "tool")

C9_Witness ==
    /\ pc = "returned"
    /\ result = Incomplete
    /\ llm_calls = max_iterations
    /\ Len(messages) = 2 + max_iterations * (1 + MaxToolCalls)

\* C10: the termination signal is null when a run starts, whatever was left
\* in it, and stays null while the run goes on; the only step that sets it
\* is the done tool's, at most once in a run, and that step ends the run
\* with the value set; a run ends with a summary only at such a step.
C10_SignalLifecycle ==
    /\ [](pc \in Running => _done_result = None)
    /\ [][ (pc = "idle" /\ pc' \in Running \cup Ended)
           => _done_result' = None ]_vars
    /\ [][ (pc \in Running /\ _done_result' # _done_result)
           => /\ pc = "act" /\ _done_result = None /\ _done_result' # None
              /\ Head(tool_calls).function.name = "done"
              /\ pc' = "returned" /\ result' = _done_result' ]_vars
    /\ [][ (pc \in Running /\ pc' = "returned" /\ _done_result' # None)
           => /\ pc = "act"
              /\ Head(tool_calls).function.name = "done"
              /\ Has(Head(tool_calls).function.arguments, "summary", result') ]_vars

C10_Witness ==
    /\ pc = "think"
    /\ llm_calls = 0
    /\ carried = "Y"
    /\ _done_result = None

\* A run_loop frame is live (running, or ended and not yet left).
InRun == pc \in Running \cup Ended /\ messages # << >>

\* C11: in run_loop, once the done tool has set the termination signal the
\* run has returned at that call: its tool message is the last of the
\* history, the calls still pending in the assistant message are never
\* executed, and the only step left is the caller's, so no tool call and no
\* model call follows in that run.
C11_NothingAfterSignal ==
    /\ [](InRun /\ _done_result # None
            => /\ pc = "returned" /\ result = _done_result
               /\ last # << >> /\ last[1].name = "done"
               /\ messages[Len(messages)].role = "tool")
    /\ [][ (InRun /\ _done_result # None)
           => /\ pc' = "idle"
              /\ llm_calls' = 0 /\ last' = << >> /\ tool_calls' = << >>
              /\ _done_result' = _done_result ]_vars

C11_Witness ==
    /\ pc = "returned"
    /\ _done_result = "X"
    /\ tool_calls # << >>
    /\ Head(tool_calls).function.name = "get_entity_by_id"
    /\ iteration < max_iterations

\* C12: every done execution whose envelope reports success leaves the
\* termination signal non-null and ends the run at that call, whatever the
\* summary supplied (an empty string and null included).
C12_SuccessfulDoneEndsRun ==
    (/\ InRun
     /\ last # << >>
     /\ last[1].name = "done"
     /\ ~last[1].outcome.raised
     /\ Has(last[1].outcome.value, "success", TRUE))
    => /\ _done_result # None
       /\ pc = "returned"

\* The assistant message m issues tool calls.
IssuesCalls(m) == m.role = "assistant" /\ ~NoToolCalls(m)

\* The number of tool messages that directly follow position i of history h.
ToolMessagesAfter(h, i) ==
    Cardinality({j \in 1..(Len(h) - i) :
                    \A m \in 1..j : h[i + m].role = "tool"})

\* The tool message that the execution of `call` yields in the current run.
ResultMessage(call) ==
    [role |-> "tool",
     content |-> json_dumps(execute(_tools, call.function.name,
                                    call.function.arguments, _http, world,
                                    None).value)]

\* In history h the tool messages that follow an assistant message are the
\* results of its tool calls, in issue order.
InIssueOrder(h) ==
    /\ \A i \in 1..Len(h) :
          IssuesCalls(h[i]) =>
              LET cs == h[i].tool_calls
                  k  == ToolMessagesAfter(h, i)
              IN  /\ k <= Len(cs)
                  /\ \A j \in 1..k : h[i + j] = ResultMessage(cs[j])
    /\ \A i \in 1..Len(h) :
          h[i].role = "tool" =>
              /\ i > 1
              /\ h[i - 1].role = "tool" \/ IssuesCalls(h[i - 1])

\* C13: within one model turn the tool calls are executed one at a time in
\* issue order: each step executes the first pending call only and appends
\* its result before the next call is started, so the tool messages follow
\* the assistant message in issue order (run_loop and interactive session).
C13_CallsRunInIssueOrder ==
    /\ [](InIssueOrder(messages) /\ InIssueOrder(conversation))
    /\ [][ (pc \in {"act", "session_act"})
           => LET call == Head(tool_calls)
                  h    == IF pc = "act" THEN messages ELSE conversation
                  h2   == IF pc = "act" THEN messages' ELSE conversation'
              IN  /\ last'[1].name = call.function.name
                  /\ last'[1].arguments = call.function.arguments
                  /\ tool_calls' = Tail(tool_calls)
                  /\ IF last'[1].outcome.raised
                     THEN h2 = h /\ pc' = "raised"
                     ELSE h2 = Append(h, ResultMessage(call)) ]_vars

C13_Witness ==
    /\ pc = "returned"
    /\ Len(messages) = 5
    /\ messages[3].tool_calls = << GoodCall("get_entity_by_id"),
                                   ToolCall("done", [summary |-> "X"]) >>
    /\ Has(messages[4].content.json, "success", TRUE)
    /\ "data" \in DOMAIN messages[4].content.json
    /\ Has(messages[5].content.json, "message", "Analysis complete.")

\* h is a prefix of h2.
IsPrefix(h, h2) ==
    /\ Len(h) <= Len(h2)
    /\ \A i \in 1..Len(h) : h2[i] = h[i]

SessionPcs == {"input", "session_think", "session_act"}

\* C14: the message history is append-only.  A run_loop history starts as
\* exactly [system, user]; while a run goes on, and from the first to the
\* last question of an interactive session, every step keeps the history
\* as a prefix of the next one, so each model call is given an extension of
\* what the previous one was given.
C14_HistoryAppendOnly ==
    /\ [][ (pc = "idle" /\ pc' \in Running \cup Ended /\ messages' # << >>)
           => messages' = << [role |-> "system", content |-> "system_prompt"],
                             [role |-> "user", content |-> "user_prompt"] >> ]_vars
    /\ [][ (pc \in Running) => IsPrefix(messages, messages') ]_vars
    /\ [][ (pc \in SessionPcs /\ pc' # "idle")
           => IsPrefix(conversation, conversation') ]_vars
    /\ [](pc \in Running => /\ Len(messages) >= 2
                            /\ messages[1].role = "system"
                            /\ messages[2].role = "user")
    /\ [](pc \in SessionPcs => /\ Len(conversation) >= 1
                               /\ conversation[1].role = "system")

C14_Witness ==
    /\ pc = "session_think"
    /\ Questions = 2
    /\ llm_calls = 1
    /\ \E i \in 1..Len(conversation) :
          /\ conversation[i].role = "tool"
          /\ i < Len(conversation) - 1

\* C15 (as stated, for runs in which no call raised): when a turn of
\* run_loop is over, every tool call of its assistant message has been
\* executed and has exactly one tool message in the history.
C15_EveryCallConsumedOnce ==
    (InRun /\ pc \in {"think", "returned"})
    => \A i \in 1..Len(messages) :
          IssuesCalls(messages[i])
              => ToolMessagesAfter(messages, i) = Len(messages[i].tool_calls)

\* Of the calls of each assistant message of h, the first k have one tool
\* message each and the others are pending, in issue order; k falls short
\* of the number of calls only while the turn is acting, or when the run
\* ended at a call: the done call that set the signal, or a call that raised.
ConsumedIn(h, acting, settled) ==
    \A i \in 1..Len(h) :
        IssuesCalls(h[i]) =>
            LET cs    == h[i].tool_calls
                k     == ToolMessagesAfter(h, i)
                later == \E j \in (i + 1)..Len(h) :
                            h[j].role \in {"assistant", "user"}
            IN  /\ k <= Len(cs)
                /\ later => k = Len(cs)
                /\ (~later /\ pc = acting)
                   => /\ k < Len(cs)
                      /\ tool_calls = SubSeq(cs, k + 1, Len(cs))
                /\ (~later /\ pc \in settled) => k = Len(cs)
                /\ (~later /\ pc = "returned")
                   => /\ tool_calls = SubSeq(cs, k + 1, Len(cs))
                      /\ k >= 1
                      /\ k < Len(cs) => /\ _done_result # None
                                        /\ cs[k].function.name = "done"
                /\ (~later /\ pc = "raised")
                   => /\ k < Len(cs)
                      /\ last[1].outcome.raised
                      /\ last[1].name = cs[k + 1].function.name
                      /\ tool_calls = SubSeq(cs, k + 2, Len(cs))

\* C15 (amended): every tool call of an assistant message is consumed at
\* most once, in issue order, and every executed call that returns has
\* exactly one tool message; a call is left unexecuted only when an earlier
\* call of the same message ended the run: the done call that set the
\* termination signal, or a call whose execution raised.
C15_CallsConsumedAtMostOnce ==
    /\ InRun => ConsumedIn(messages, "act", {"think"})
    /\ conversation # << >>
       => ConsumedIn(conversation, "session_act", {"session_think", "input"})

C15_Witness ==
    /\ pc = "returned"
    /\ _done_result = ""
    /\ result = ""
    /\ tool_calls = << ToolCall("bogus", << >>) >>
    /\ ToolMessagesAfter(messages, Len(messages) - 1) = 1

\* C16: after any sequence of register calls the tool names are unique:
\* schemas() lists exactly one descriptor per registered name.
C16_OneDescriptorPerName ==
    /\ \A i, j \in 1..Len(schemas) :
          schemas[i].name = schemas[j].name => i = j
    /\ {schemas[i].name : i \in 1..Len(schemas)} = tool_names
    /\ Len(schemas) = Cardinality(tool_names)

\* C17: every envelope a tool returns through execute satisfies: success
\* false implies error and action present, success true implies error and
\* action absent.
C17_EnvelopeShape ==
    (last # << >> /\ ~last[1].outcome.raised)
    => LET env == last[1].outcome.value
       IN  /\ "success" \in DOMAIN env
           /\ ~env.success => {"error", "action"} \subseteq DOMAIN env
           /\ env.success => {"error", "action"} \cap DOMAIN env = {}

\* The taxonomy: the action of each failure kind, and its retry hint
\* (0: none).
TaxonomyAction(kind) ==
    CASE kind \in {"NOT_FOUND", "NOT_CASUALTY", "NO_TIMESTAMP",
                   "INVALID_TIMESTAMP"} -> "inform"
      [] kind \in {"CLIENT_ERROR", "INVALID_ARGUMENTS"} -> "correct"
      [] kind \in {"SERVER_ERROR", "INVALID_JSON", "TIMEOUT",
                   "CONNECTION_REFUSED", "NETWORK_ERROR",
                   "TOOL_EXECUTION_ERROR"} -> "retry"
      [] OTHER -> "unknown kind"

TaxonomyHint(kind) ==
    CASE kind = "SERVER_ERROR" -> 5
      [] kind = "TIMEOUT" -> 3
      [] kind = "CONNECTION_REFUSED" -> 10
      [] OTHER -> 0

\* C18: every failure envelope (of the transport client, the domain tools
\* or the registry) carries the action its kind has in the taxonomy, and a
\* retry hint only for SERVER_ERROR (5), TIMEOUT (3) and CONNECTION_REFUSED
\* (10).
C18_OneActionPerKind ==
    (last # << >> /\ ~last[1].outcome.raised
                  /\ Has(last[1].outcome.value, "success", FALSE))
    => LET env == last[1].outcome.value
       IN  /\ {"error", "action"} \subseteq DOMAIN env
           /\ env.action = TaxonomyAction(env.error)
           /\ IF TaxonomyHint(env.error) = 0
              THEN "retry_after_seconds" \notin DOMAIN env
              ELSE Has(env, "retry_after_seconds", TaxonomyHint(env.error))

C18_Witness ==
    /\ last # << >>
    /\ world = Failure("ConnectError")
    /\ Has(last[1].outcome.value, "error", "CONNECTION_REFUSED")
    /\ Has(last[1].outcome.value, "action", "retry")
    /\ Has(last[1].outcome.value, "retry_after_seconds", 10)

\* The latest execute ran a basic tool (one transport GET, dumped) with
\* bound arguments on an initialized client that met an HTTP response.
GotResponse ==
    /\ last # << >>
    /\ last[1].name \in BasicTools
    /\ last[1].outcome.entered
    /\ _http
    /\ world.kind = "response"

\* C19: the transport GET yields one outcome by status: 404 NOT_FOUND,
\* >= 500 SERVER_ERROR, other 4xx CLIENT_ERROR, 2xx with an undecodable
\* body INVALID_JSON, 2xx with a decodable body success.
C19_OutcomeByStatus ==
    GotResponse =>
        LET env == last[1].outcome.value
            st  == world.status
        IN  /\ ~last[1].outcome.raised
            /\ st = 404 => Has(env, "error", "NOT_FOUND")
            /\ st >= 500 => Has(env, "error", "SERVER_ERROR")
            /\ (st \in 400..499 /\ st # 404) => Has(env, "error", "CLIENT_ERROR")
            /\ (st \in 200..299 /\ ~world.body.decodes)
               => Has(env, "error", "INVALID_JSON")
            /\ (st \in 200..299 /\ world.body.decodes)
               => Has(env, "success", TRUE)

\* C20: a 2xx body that decodes to an object with a data member yields
\* success with data equal to that member; one that decodes to a bare value
\* (an array, a scalar, an object without a data member) yields success
\* with data equal to the whole decoded value.  (A null data is left out of
\* the dumped envelope.)
C20_DataOfDecodedBody ==
    (GotResponse /\ world.status \in 200..299 /\ world.body.decodes)
    => LET env == last[1].outcome.value
       IN  /\ ~last[1].outcome.raised
           /\ Has(env, "success", TRUE)
           /\ IF world.body.payload.kind = "null"
              THEN "data" \notin DOMAIN env
              ELSE Has(env, "data", world.body.payload)

\* C21: on one client, whatever the sequence of scope entries, scope exits and
\* transport calls, at most one connection context is open, one is open
\* exactly while the client is inside a scope (so none is left open once the
\* scope is exited, on any exit path), and a request is sent only by a call
\* made while the context is held.
C21_OneScopedContext ==
    /\ contexts <= 1
    /\ (_http <=> contexts = 1)
    /\ \A i \in DOMAIN last :
           last[i].name = "_get" /\ last[i].outcome.sent > 0 => last[i].bound

\* C22: an interruption of a wait during a session turn aborts only that turn:
\* afterwards the session is still at a point where it takes the next
\* question (or goes on), with its history in place.
C22_InterruptAbortsOnlyTurn ==
    conversation # << >> /\ error \in Interruptions => pc \in SessionPcs

\* C23: agents built over one registry share no termination signal: an
\* agent's signal is set only by a done call of its own run, which ends that
\* run at once with the summary as its result (and run_loop resets the signal
\* on entry).  So whenever an agent's signal is set, that agent's run has
\* returned it.
C23_SignalIsOwn ==
    \A a \in DOMAIN agents :
        agents[a]._done_result # None =>
            /\ agents[a].pc = "returned"
            /\ agents[a].result = agents[a]._done_result

\* The messages of the session's current turn: those after the latest
\* question.
Turn ==
    LET asked == {i \in DOMAIN conversation : conversation[i].role = "user"}
    IN  IF asked = {} THEN << >>
        ELSE LET q == CHOOSE i \in asked : \A j \in asked : j <= i
             IN  SubSeq(conversation, q + 1, Len(conversation))

\* The tool message that a done call which set the signal leaves behind.
DoneMessage ==
    [role |-> "tool", content |-> json_dumps(done([summary |-> "Y"]).value)]

\* C24: in a session turn, a done call that set the signal ends the turn at
\* once: its tool message is the last message of the turn (no further tool
\* call is executed, the model is not called again) and the session is back
\* at the prompt.
C24_DoneEndsTurn ==
    (\E i \in DOMAIN Turn : Turn[i] = DoneMessage) =>
        /\ pc = "input"
        /\ Turn[Len(Turn)] = DoneMessage

\* C25: a session turn that used up max_iterations model calls without a
\* final answer (and without a done call) gives the user the fixed
\* analysis-incomplete result.
C25_ExhaustedTurnIsExplicit ==
    /\ pc = "input"
    /\ Turn # << >>
    /\ llm_calls = max_iterations
    /\ \A i \in DOMAIN Turn : Turn[i] # DoneMessage
    /\ ~(Turn[Len(Turn)].role = "assistant" /\ NoToolCalls(Turn[Len(Turn)]))
    => result = Incomplete

\* The parameters of the function a descriptor was built from.
Declared(descriptor) ==
    {Signature(descriptor.name)[i] : i \in DOMAIN Signature(descriptor.name)}

\* C26: in every descriptor of schemas(), the required list holds exactly
\* the parameters declared without a default: each of those is in it, no
\* parameter with a default (None included) is, and a default that is not
\* None is embedded in the parameter's property.
C26_RequiredIffNoDefault ==
    \A i \in DOMAIN schemas :
        LET d == schemas[i]
            required == {d.required[k] : k \in DOMAIN d.required}
        IN  \A param \in Declared(d) :
                /\ param.default.kind = "empty" => param.name \in required
                /\ param.default.kind # "empty" => param.name \notin required
                /\ param.default.kind = "value" =>
                       Has(d.properties[param.name], "default",
                           param.default.value)
                /\ required \subseteq {q.name : q \in Declared(d)}

\* Registered: a function with a parameter without default, one with a None
\* default and one with a concrete default, and a function of the repository
\* with a concrete default.
C26_Witness ==
    /\ \E i \in DOMAIN schemas :
           /\ schemas[i].name = "sample_tool"
           /\ schemas[i].required = <<"query">>
           /\ "default" \notin DOMAIN schemas[i].properties["category"]
           /\ schemas[i].properties["limit"].default = 10
    /\ \E i \in DOMAIN schemas :
           /\ schemas[i].name = "get_nearby_entities"
           /\ schemas[i].properties["radius_m"].default = 5000

\* The casualty or casualty list the backing service holds.
Held == world.body.payload

\* The data of the envelope a successful execution of tool f returned.
Reported(f) ==
    IF /\ last # << >>
       /\ last[1].name = f
       /\ ~last[1].outcome.raised
       /\ Has(last[1].outcome.value, "success", TRUE)
    THEN <<last[1].outcome.value.data>>
    ELSE << >>

\* C27: for every list of casualties, with red the number of RED casualties
\* and total the length of the list, get_mascal_summary reports
\* MASCAL_DECLARED with risk HIGH iff red >= 10 or total >= 30, otherwise
\* MASCAL_WARNING with risk MODERATE iff red >= 5 or total >= 15, otherwise
\* NORMAL with risk LOW.
C27_MascalThresholds ==
    \A d \in {Reported("get_mascal_summary")[i] :
                 i \in DOMAIN Reported("get_mascal_summary")} :
        LET cs == Held.casualties
            red == Cardinality({i \in DOMAIN cs : cs[i].triage_color = "RED"})
            total == Len(cs)
            declared == red >= 10 \/ total >= 30
            warning == ~declared /\ (red >= 5 \/ total >= 15)
        IN  /\ d.mascal_status = "MASCAL_DECLARED" <=> declared
            /\ d.mascal_status = "MASCAL_WARNING" <=> warning
            /\ d.mascal_status = "NORMAL" <=> ~declared /\ ~warning
            /\ d.assessment.overwhelmed_risk =
                  (IF declared THEN "HIGH"
                   ELSE IF warning THEN "MODERATE" ELSE "LOW")

\* 10 RED casualties and no others: declared on the RED rule alone.
C27_Witness ==
    /\ Reported("get_mascal_summary") # << >>
    /\ Reported("get_mascal_summary")[1].total_casualties = 10
    /\ Reported("get_mascal_summary")[1].assessment.RED_casualties = 10
    /\ Reported("get_mascal_summary")[1].mascal_status = "MASCAL_DECLARED"

\* The compliance report of the casualty held, if the tool gave one.
Compliance ==
    {Reported("check_10_1_2_compliance")[i] :
        i \in DOMAIN Reported("check_10_1_2_compliance")}

AllCompliant ==
    [first_aid_10min |-> "COMPLIANT", dcr_1hour |-> "COMPLIANT",
     dcs_2hour |-> "COMPLIANT"]

\* C28: for a casualty that is not deceased and was injured at most 10
\* minutes ago, whatever its triage colour, evacuation stage and priority,
\* check_10_1_2_compliance reports the three checks COMPLIANT and the single
\* recommendation "Timeline compliant".
C28_WithinTenMinutes ==
    \A d \in Compliance :
        Held.casualty_status # "KIA" /\ Held.age_s <= 10 * 60 =>
            /\ Has(d, "timeline_status", AllCompliant)
            /\ Has(d, "recommendations", <<"Timeline compliant">>)

\* A RED casualty at the point of injury, injured exactly 10 minutes ago.
C28_Witness ==
    /\ Compliance # {}
    /\ Held.casualty_status = "WIA" /\ Held.triage_color = "RED"
    /\ Held.evac_stage = "at_poi" /\ Held.evac_priority = "URGENT"
    /\ Held.age_s = 10 * 60
    /\ \A d \in Compliance : d.timeline_status = AllCompliant

\* What the report says of a RED casualty past the 1-hour limit.
DcrViolated(d) ==
    /\ "timeline_status" \in DOMAIN d
    /\ d.timeline_status.dcr_1hour = "VIOLATED"
    /\ \E i \in DOMAIN d.recommendations : d.recommendations[i] = ExceedsDcr

\* C29: for every RED casualty still at the point of injury whose elapsed
\* time since injury is above 60 minutes, check_10_1_2_compliance reports
\* dcr_1hour VIOLATED and recommends on the exceeded 1-hour DCR timeline.
C29_RedAtPoiPastHour ==
    \A d \in Compliance :
        /\ Held.triage_color = "RED" /\ Held.evac_stage = "at_poi"
        /\ Held.age_s > 60 * 60
        => DcrViolated(d)

\* C29, as it holds: the same for a RED casualty that is not KIA and whose
\* elapsed time in whole minutes (the seconds dropped) is above 60.
C29_RedAtPoiPastWholeHour ==
    \A d \in Compliance :
        /\ Held.triage_color = "RED" /\ Held.evac_stage = "at_poi"
        /\ Held.casualty_status # "KIA"
        /\ int(Held.age_s, 60) > 60
        => DcrViolated(d)

\* A RED casualty at the point of injury, injured 90 minutes ago.
C29_Witness ==
    /\ Compliance # {}
    /\ Held.triage_color = "RED" /\ Held.evac_stage = "at_poi"
    /\ Held.casualty_status = "WIA" /\ Held.age_s = 90 * 60
    /\ \A d \in Compliance : DcrViolated(d)

\* C30: at one speed the estimate does not decrease as the distance grows,
\* and it is at least 1 minute for every distance above 0.
C30_EtaMonotoneAtLeastOne ==
    /\ \A i, j \in DOMAIN last :
           /\ last[i].arguments.speed_kmh = last[j].arguments.speed_kmh
           /\ last[i].arguments.distance_m <= last[j].arguments.distance_m
           => last[i].outcome <= last[j].outcome
    /\ \A i \in DOMAIN last :
           last[i].arguments.distance_m > 0 => last[i].outcome >= 1

\* A distance below one minute of travel and a longer one, at 60 km/h.
C30_Witness ==
    /\ Len(last) = 2
    /\ last[1].arguments = [distance_m |-> DistanceStep, speed_kmh |-> 60]
    /\ last[2].arguments.speed_kmh = 60
    /\ last[2].arguments.distance_m > DistanceStep
    /\ last[1].outcome = 1
    /\ last[2].outcome > 1

\* A step of run_loop that executes the pending tool call reflects it: one
\* tool message is appended and the run goes on or returns a result; no
\* exception leaves run_loop.
Reflected ==
    /\ pc' \in {"act", "think", "returned"}
    /\ error' = error
    /\ Len(messages') = Len(messages) + 1
    /\ SubSeq(messages', 1, Len(messages)) = messages
    /\ messages'[Len(messages')].role = "tool"
    /\ pc' = "returned" => result' # None

\* C31 (as stated): run_loop never aborts with an exception because of what
\* the model put in a tool call: for every tool name, registered or not, and
\* every argument mapping, the call is reflected as a tool message and the
\* run goes on or returns.
C31_AnyCallIsReflected ==
    [][ (pc = "act") => Reflected ]_vars

\* C31 (amended): for every registered tool name and every argument mapping
\* the call is reflected as a tool message and the run goes on or returns;
\* no exception leaves run_loop.
C31_RegisteredCallIsReflected ==
    [][ (pc = "act" /\ Registered(Head(tool_calls).function.name))
        => Reflected ]_vars

C31_Witness ==
    /\ pc \in {"act", "think"}
    /\ last # << >>
    /\ Registered(last[1].name)
    /\ Mismatch(_tools[last[1].name], last[1].arguments)
    /\ messages[Len(messages)].role = "tool"
    /\ error = None

\* The casualty held is deceased: killed in action, or triaged BLACK.
Deceased == Held.casualty_status = "KIA" \/ Held.triage_color = "BLACK"

\* The label of a check that is not met, for the triage colour of the
\* casualty held: VIOLATED for RED, the milder label for the others.
Unmet(milder) == IF Held.triage_color = "RED" THEN "VIOLATED" ELSE milder

\* C32 (as stated): for a casualty that is not deceased each of the three
\* checks is exactly one of COMPLIANT, DELAYED, AT_RISK, VIOLATED: first aid
\* is COMPLIANT iff elapsed <= 10, the 1-hour check iff elapsed <= 60 or the
\* casualty is in transit or delivered, the 2-hour check iff elapsed <= 120
\* or the casualty is delivered; a check that is not met is VIOLATED for RED
\* and otherwise DELAYED (first aid) or AT_RISK (1-hour, 2-hour).
C32_FourLabels ==
    \A d \in Compliance :
        ~Deceased =>
            /\ "timeline_status" \in DOMAIN d
            /\ LET t == d.timeline_status
                   elapsed == d.time_since_injury_minutes
               IN  /\ t.first_aid_10min =
                        (IF elapsed <= 10 THEN "COMPLIANT"
                         ELSE Unmet("DELAYED"))
                   /\ t.dcr_1hour =
                        (IF elapsed <= 60
                            \/ Held.evac_stage \in {"in_transit", "delivered"}
                         THEN "COMPLIANT" ELSE Unmet("AT_RISK"))
                   /\ t.dcs_2hour =
                        (IF elapsed <= 120 \/ Held.evac_stage = "delivered"
                         THEN "COMPLIANT" ELSE Unmet("AT_RISK"))

\* C32 (amended): the same, except that a 1-hour or 2-hour check met only
\* because of the evacuation stage carries the label COMPLIANT followed by a
\* note in parentheses: "COMPLIANT (en route or delivered)" for the 1-hour
\* check past 60 minutes of a casualty in transit or delivered, "COMPLIANT
\* (delivered to facility)" for the 2-hour check past 120 minutes of a
\* casualty delivered.  Elapsed is the time since the injury in whole
\* minutes, the fraction of a minute dropped.
C32_LabelsWithNote ==
    \A d \in Compliance :
        ~Deceased =>
            /\ "timeline_status" \in DOMAIN d
            /\ IF Held.age_s >= 0
               THEN /\ d.time_since_injury_minutes * 60 <= Held.age_s
                    /\ Held.age_s < (d.time_since_injury_minutes + 1) * 60
               ELSE /\ (d.time_since_injury_minutes - 1) * 60 < Held.age_s
                    /\ Held.age_s <= d.time_since_injury_minutes * 60
            /\ LET t == d.timeline_status
                   elapsed == d.time_since_injury_minutes
               IN  /\ t.first_aid_10min =
                        (IF elapsed <= 10 THEN "COMPLIANT"
                         ELSE Unmet("DELAYED"))
                   /\ t.dcr_1hour =
                        (IF elapsed <= 60 THEN "COMPLIANT"
                         ELSE IF Held.evac_stage \in {"in_transit", "delivered"}
                         THEN "COMPLIANT (en route or delivered)"
                         ELSE Unmet("AT_RISK"))
                   /\ t.dcs_2hour =
                        (IF elapsed <= 120 THEN "COMPLIANT"
                         ELSE IF Held.evac_stage = "delivered"
                         THEN "COMPLIANT (delivered to facility)"
                         ELSE Unmet("AT_RISK"))

\* A YELLOW casualty in transit, injured 121 minutes ago.
C32_Witness ==
    /\ Compliance # {}
    /\ Held.casualty_status = "WIA" /\ Held.triage_color = "YELLOW"
    /\ Held.evac_stage = "in_transit" /\ Held.age_s = 121 * 60
    /\ \A d \in Compliance :
           d.timeline_status =
               [first_aid_10min |-> "DELAYED",
                dcr_1hour |-> "COMPLIANT (en route or delivered)",
                dcs_2hour |-> "AT_RISK"]

\* The number of times recommendation r is in the list rs.
Times(rs, r) == Cardinality({i \in DOMAIN rs : rs[i] = r})

\* C33: the four recommendation rules are independent and accumulate.  For
\* every casualty that gets a timeline (it is not KIA), each rule gives its
\* recommendation, once, exactly when its own condition holds (RED at POI
\* past 30 min; RED past 60 min and not delivered; RED or YELLOW past 120
\* min and not delivered; URGENT at POI past 15 min), whatever the other
\* rules do; the list is never empty and is exactly <<"Timeline compliant">>
\* iff no rule fires.
C33_RulesAccumulate ==
    \A d \in Compliance :
        Held.casualty_status # "KIA" =>
            /\ "recommendations" \in DOMAIN d
            /\ LET rs == d.recommendations
                   elapsed == d.time_since_injury_minutes
                   red == Held.triage_color = "RED"
                   at_poi == Held.evac_stage = "at_poi"
                   delivered == Held.evac_stage = "delivered"
                   r1 == red /\ at_poi /\ elapsed > 30
                   r2 == red /\ elapsed > 60 /\ ~delivered
                   r3 == /\ Held.triage_color \in {"RED", "YELLOW"}
                         /\ elapsed > 120 /\ ~delivered
                   r4 == /\ Held.evac_priority = "URGENT" /\ at_poi
                         /\ elapsed > 15
                   none == ~r1 /\ ~r2 /\ ~r3 /\ ~r4
               IN  /\ Times(rs, StillAtPoi) = (IF r1 THEN 1 ELSE 0)
                   /\ Times(rs, ExceedsDcr) = (IF r2 THEN 1 ELSE 0)
                   /\ Times(rs, ExceedsDcs) = (IF r3 THEN 1 ELSE 0)
                   /\ Times(rs, UrgentAtPoi) = (IF r4 THEN 1 ELSE 0)
                   /\ Times(rs, "Timeline compliant") = (IF none THEN 1 ELSE 0)
                   /\ rs # << >>
                   /\ rs = <<"Timeline compliant">> <=> none
                   /\ \A i \in DOMAIN rs :
                          rs[i] \in {StillAtPoi, ExceedsDcr, ExceedsDcs,
                                     UrgentAtPoi, "Timeline compliant"}

\* A RED casualty of URGENT priority at the point of injury, injured 121
\* minutes ago: the four rules fire together.
C33_Witness ==
    /\ Compliance # {}
    /\ Held.casualty_status = "WIA" /\ Held.triage_color = "RED"
    /\ Held.evac_stage = "at_poi" /\ Held.evac_priority = "URGENT"
    /\ Held.age_s = 121 * 60
    /\ \A d \in Compliance :
           d.recommendations =
               <<StillAtPoi, ExceedsDcr, ExceedsDcs, UrgentAtPoi>>

\* A timeline check of report d is met: its label is COMPLIANT, with or
\* without a note.
Met(d, check) ==
    d.timeline_status[check] \in
        {"COMPLIANT", "COMPLIANT (en route or delivered)",
         "COMPLIANT (delivered to facility)"}

\* C34: the timeline status and the recommendations of one result never
\* contradict each other: the recommendation on the exceeded 1-hour DCR
\* timeline is present only when dcr_1hour is not compliant, and the one on
\* the exceeded 2-hour DCS timeline only when dcs_2hour is not compliant.
C34_StatusAgreesWithAdvice ==
    \A d \in Compliance :
        "recommendations" \in DOMAIN d =>
            /\ Times(d.recommendations, ExceedsDcr) > 0 => ~Met(d, "dcr_1hour")
            /\ Times(d.recommendations, ExceedsDcs) > 0 => ~Met(d, "dcs_2hour")

\* C35: for every deceased casualty (casualty status KIA, or triage colour
\* BLACK), whatever the elapsed time and the evacuation stage,
\* check_10_1_2_compliance gives the fixed result that the timeline check is
\* not applicable, with no timeline status and no recommendations.
C35_DeceasedShortCircuits ==
    \A d \in Compliance :
        Deceased =>
            /\ d.kind = "not applicable"
            /\ "timeline_status" \notin DOMAIN d
            /\ "recommendations" \notin DOMAIN d

\* The places in the list held of the casualties that are RED and at the
\* point of injury.
CriticalPlaces ==
    {i \in DOMAIN Held.casualties :
        /\ Held.casualties[i].triage_color = "RED"
        /\ Held.casualties[i].evac_stage = "at_poi"}

\* The k-th of those places, in casualty order.
CriticalPlace(k) ==
    CHOOSE i \in CriticalPlaces :
        Cardinality({j \in CriticalPlaces : j <= i}) = k

\* C36: in the summary, with n the number of casualties that are both RED
\* and at the point of injury, critical_at_poi is the first min(5, n) of
\* them in casualty order and nothing else, and critical_at_poi_count is n,
\* also when n is above 5.
C36_CriticalAtPoiCapped ==
    \A d \in {Reported("get_mascal_summary")[i] :
                 i \in DOMAIN Reported("get_mascal_summary")} :
        LET n == Cardinality(CriticalPlaces)
            shown == d.critical_at_poi
        IN  /\ d.critical_at_poi_count = n
            /\ Len(shown) = (IF n < 5 THEN n ELSE 5)
            /\ \A k \in DOMAIN shown :
                   shown[k].id = Held.casualties[CriticalPlace(k)].id

\* Eleven RED casualties, six of them at the point of injury: five are
\* listed and six are counted.
C36_Witness ==
    /\ Reported("get_mascal_summary") # << >>
    /\ Cardinality(CriticalPlaces) = 6
    /\ Reported("get_mascal_summary")[1].critical_at_poi_count = 6
    /\ Len(Reported("get_mascal_summary")[1].critical_at_poi) = 5
    /\ Len(Held.casualties) > 11

\* The executions of the nearest-facility search that returned.
Searches ==
    {last[i] : i \in {j \in DOMAIN last :
                        /\ last[j].name = "find_nearest_facility_by_role"
                        /\ ~last[j].outcome.raised}}

\* The minimum role of search c: the one given, 1 by default.
MinRole(c) ==
    IF "min_role" \in DOMAIN c.arguments THEN c.arguments["min_role"] ELSE 1

\* The role level the tag of entity e stands for; 0 for any other tag and
\* for an entity without tag.
TagLevel(e) ==
    IF "tipo_elemento" \notin DOMAIN e THEN 0
    ELSE CASE e.tipo_elemento = "medical_role_1" -> 1
           [] e.tipo_elemento = "medical_role_2" -> 2
           [] e.tipo_elemento = "medical_role_2basic" -> 2
           [] e.tipo_elemento = "medical_role_2enhanced" -> 2
           [] e.tipo_elemento = "medical_role_3" -> 3
           [] e.tipo_elemento = "medical_facility_multinational" -> 3
           [] e.tipo_elemento = "medical_role_4" -> 4
           [] OTHER -> 0

\* The ids of the medical facilities among the entities in the radius, and
\* of those whose role level is at least min_role.
FacilityIds ==
    {e.id : e \in {Held.entities[i] : i \in
                      {j \in DOMAIN Held.entities :
                          /\ "categoria" \in DOMAIN Held.entities[j]
                          /\ Held.entities[j].categoria = "medical_facility"}}}

EligibleIds(min_role) ==
    {id \in FacilityIds : TagLevel(Held.entities[id]) >= min_role}

\* The distance of the entity with this id, in whole metres.
Metres(id) == Held.entities[id].dist2 \div 2

\* The facilities a returned search shows: the nearest, then the
\* alternatives; none where the data is null.
Shown(c) ==
    IF "nearest" \in DOMAIN c.outcome.value.data
    THEN <<c.outcome.value.data.nearest>> \o c.outcome.value.data.alternatives
    ELSE << >>

C38_RoleLevels ==
    \A c \in Searches :
        LET shown == Shown(c)
            ids == {shown[i].id : i \in DOMAIN shown}
        IN  /\ \A i \in DOMAIN shown :
                   shown[i].role_level = TagLevel(Held.entities[shown[i].id])
            /\ \A id \in FacilityIds :
                   IF TagLevel(Held.entities[id]) >= MinRole(c)
                   THEN id \in ids \/ Len(shown) = 4
                   ELSE id \notin ids

\* A facility with a tag that is no role, searched with min_role 0 and
\* shown with level 0 after the nearer aid post.
C38_Witness ==
    /\ Searches # {}
    /\ Len(Held.entities) = 2
    /\ Has(Held.entities[1], "tipo_elemento", "hospital_ship")
    /\ \A c \in Searches :
           /\ MinRole(c) = 0
           /\ Len(Shown(c)) = 2
           /\ Shown(c)[2].id = 1
           /\ Shown(c)[2].role_level = 0

\* C39: when the radius query succeeds and no medical facility is in the
\* radius, or none meets the role floor, the search returns success true with
\* null data and the action inform, never a failure envelope.
C39_AbsenceIsInform ==
    \A c \in Searches :
        EligibleIds(MinRole(c)) = {} =>
            /\ Has(c.outcome.value, "success", TRUE)
            /\ Has(c.outcome.value, "data", NullPayload)
            /\ Has(c.outcome.value, "action", "inform")
            /\ "error" \notin DOMAIN c.outcome.value

\* Five facilities in the radius, none of role 4.
C39_Witness ==
    /\ Searches # {}
    /\ Cardinality(FacilityIds) = 5
    /\ \A c \in Searches :
           /\ MinRole(c) = 4
           /\ EligibleIds(4) = {}
           /\ Has(c.outcome.value, "action", "inform")
           /\ Has(c.outcome.value, "data", NullPayload)


\* The quotient a / b of two naturals, b > 0, rounded to the nearest whole
\* number, a half going to the even neighbour.
round(a, b) ==
    LET q == a \div b
        r == a % b
    IN  IF 2 * r < b THEN q
        ELSE IF 2 * r > b THEN q + 1
        ELSE IF q % 2 = 0 THEN q ELSE q + 1

\* C40: for every distance of 0 or more and speed above 0 the estimate is
\* max(1, round(distance_km / speed_kmh * 60)), the travel minutes rounded
\* to the nearest whole minute.
C40_EtaRoundsToNearest ==
    \A i \in DOMAIN last :
        LET minutes == round(last[i].arguments.distance_m * 60,
                             1000 * last[i].arguments.speed_kmh)
        IN  last[i].outcome = IF minutes > 1 THEN minutes ELSE 1

====
